---- MODULE Spec2Model ----
(***************************************************************************)
(* Shenzhen-solitaire board, automove engine, canonical equality, the A*   *)
(* solver and the interactive game of src/src/board.rs, src/src/solver.rs  *)
(* and src/src/game.rs.                                                    *)
(*                                                                         *)
(* Sequences are 1-based here; the source's index i is i+1 in the model.   *)
(* An Option<T> is a sequence of length 0 (None) or 1 (Some).              *)
(***************************************************************************)
EXTENDS Integers, Sequences, FiniteSets, Bags, TLC

VARIABLES board, call, ret, pc, steps, auto,
          start, open_set, path, closed_set, gscores, result,
          cursor, mode, key

vars == <<board, call, ret, pc, steps, auto,
          start, open_set, path, closed_set, gscores, result,
          cursor, mode, key>>

boardVars == <<board, call, ret, pc, steps, auto>>
solverVars == <<start, open_set, path, closed_set, gscores, result>>
gameVars == <<cursor, mode, key>>

----------------------------------------------------------------------------
(* Bounds of the model                                                     *)

\* number of adopted (successful) operations explored from an initial board
MaxSteps == 1
\* largest height handed to move_n_cards
MaxN == 4
\* number of loop iterations of solve_rc explored
MaxIter == 8
\* highest rank of the Number cards in the two-card columns handed to the
\* cell operations
MaxPairRank == 3

----------------------------------------------------------------------------
(* Cards: board.rs 15-28                                                   *)

Suits == <<"Black", "Green", "Red">>
SuitSet == {"Black", "Green", "Red"}
NumFreeCells == 3
NumGoalCells == 3
NumGameCells == 8
MaxRank == 9
DragonsPerSuit == 4

None == <<>>
Some(x) == <<x>>

JokerCard == [k |-> "JokerCard", suit |-> "Black", rank |-> 0]
DragonCard(s) == [k |-> "DragonCard", suit |-> s, rank |-> 0]
NumberCard(s, r) == [k |-> "NumberCard", suit |-> s, rank |-> r]
DragonStack == [k |-> "DragonStack", suit |-> "Black", rank |-> 0]

\* can_hold without the suit test
can_hold_any_suit(self, card) ==
    /\ self.k = "NumberCard"
    /\ card.k = "NumberCard"
    /\ self.rank = card.rank + 1

\* Card::can_hold
can_hold(self, card) ==
    /\ self.k = "NumberCard"
    /\ card.k = "NumberCard"
    /\ self.suit # card.suit
    /\ self.rank = card.rank + 1

----------------------------------------------------------------------------
(* Cells: board.rs 43-156                                                  *)

JokerCell(has) == [t |-> "JokerCell", has_joker |-> has]
FreeCell(card) == [t |-> "FreeCell", cards |-> card]
GameCell(card_stack) == [t |-> "GameCell", cards |-> card_stack]
GoalCell(top_card) == [t |-> "GoalCell", cards |-> top_card]

\* accept_stack that never asks the top card whether it holds the run
accept_stack_any(self, cards) == Some(GameCell(self.cards \o cards))

\* CardCell::accept_stack (only GameCells are ever handed to it)
accept_stack(self, cards) ==
    IF self.cards # <<>> /\ ~can_hold(self.cards[Len(self.cards)], cards[1])
    THEN None
    ELSE Some(GameCell(self.cards \o cards))

\* accept whose JokerCell arm matches any card
accept_joker_cell_any(self, card) ==
    IF card.k = "DragonStack" THEN None
    ELSE IF self.t = "JokerCell" THEN Some(JokerCell(TRUE))
    ELSE IF self.t = "FreeCell"
    THEN IF self.cards = <<>> THEN Some(FreeCell(<<card>>)) ELSE None
    ELSE IF self.t = "GoalCell"
    THEN IF card.k # "NumberCard" THEN None
         ELSE IF self.cards = <<>>
         THEN IF card.rank = 1 THEN Some(GoalCell(<<card>>)) ELSE None
         ELSE IF /\ self.cards[1].k = "NumberCard"
                 /\ self.cards[1].suit = card.suit
                 /\ self.cards[1].rank + 1 = card.rank
              THEN Some(GoalCell(<<card>>))
              ELSE None
    ELSE accept_stack(self, <<card>>)

\* accept without its first arm: a DragonStack is a card like any other
accept_dragon_stack(self, card) ==
    IF self.t = "JokerCell"
    THEN IF card.k = "JokerCard" THEN Some(JokerCell(TRUE)) ELSE None
    ELSE IF self.t = "FreeCell"
    THEN IF self.cards = <<>> THEN Some(FreeCell(<<card>>)) ELSE None
    ELSE IF self.t = "GoalCell"
    THEN IF card.k # "NumberCard" THEN None
         ELSE IF self.cards = <<>>
         THEN IF card.rank = 1 THEN Some(GoalCell(<<card>>)) ELSE None
         ELSE IF /\ self.cards[1].k = "NumberCard"
                 /\ self.cards[1].suit = card.suit
                 /\ self.cards[1].rank + 1 = card.rank
              THEN Some(GoalCell(<<card>>))
              ELSE None
    ELSE accept_stack(self, <<card>>)

\* accept whose goal pile takes the next rank of any suit
accept_any_suit(self, card) ==
    IF card.k = "DragonStack" THEN None
    ELSE IF self.t = "JokerCell"
    THEN IF card.k = "JokerCard" THEN Some(JokerCell(TRUE)) ELSE None
    ELSE IF self.t = "FreeCell"
    THEN IF self.cards = <<>> THEN Some(FreeCell(<<card>>)) ELSE None
    ELSE IF self.t = "GoalCell"
    THEN IF card.k # "NumberCard" THEN None
         ELSE IF self.cards = <<>>
         THEN IF card.rank = 1 THEN Some(GoalCell(<<card>>)) ELSE None
         ELSE IF /\ self.cards[1].k = "NumberCard"
                 /\ self.cards[1].rank + 1 = card.rank
              THEN Some(GoalCell(<<card>>))
              ELSE None
    ELSE accept_stack(self, <<card>>)

\* CardCell::accept
accept(self, card) ==
    IF card.k = "DragonStack" THEN None
    ELSE IF self.t = "JokerCell"
    THEN IF card.k = "JokerCard" THEN Some(JokerCell(TRUE)) ELSE None
    ELSE IF self.t = "FreeCell"
    THEN IF self.cards = <<>> THEN Some(FreeCell(<<card>>)) ELSE None
    ELSE IF self.t = "GoalCell"
    THEN IF card.k # "NumberCard" THEN None
         ELSE IF self.cards = <<>>
         THEN IF card.rank = 1 THEN Some(GoalCell(<<card>>)) ELSE None
         ELSE IF /\ self.cards[1].k = "NumberCard"
                 /\ self.cards[1].suit = card.suit
                 /\ self.cards[1].rank + 1 = card.rank
              THEN Some(GoalCell(<<card>>))
              ELSE None
    ELSE accept_stack(self, <<card>>)

\* CardCell::top
top(self) ==
    IF self.t = "JokerCell" THEN None
    ELSE IF self.cards = <<>> THEN None
    ELSE Some(self.cards[Len(self.cards)])

\* pop whose FreeCell arm takes a GoalCell too: only a JokerCell panics
pop_panics_joker(self) == self.t = "JokerCell"

\* CardCell::pop panics on a JokerCell or GoalCell
pop_panics(self) == self.t \notin {"GameCell", "FreeCell"}

\* CardCell::pop (Vec::pop on an empty vector removes nothing)
pop(self) ==
    IF self.t = "GameCell"
    THEN GameCell(IF self.cards = <<>> THEN <<>>
                  ELSE SubSeq(self.cards, 1, Len(self.cards) - 1))
    ELSE FreeCell(None)

\* pop_n off by one the other way: the card under the n cards leaves too
pop_n_long(self, n) == GameCell(SubSeq(self.cards, 1, Len(self.cards) - n - 1))

\* pop_n off by one: the lowest card taken stays on the source as well
pop_n_short(self, n) == GameCell(SubSeq(self.cards, 1, Len(self.cards) - n + 1))

\* CardCell::pop_n
pop_n(self, n) == GameCell(SubSeq(self.cards, 1, Len(self.cards) - n))

\* the loop of iter_stack: index of the lowest card of the run ending at the top
RECURSIVE iter_stack_from(_, _)
iter_stack_from(card_stack, i) ==
    IF i > 1 /\ can_hold(card_stack[i - 1], card_stack[i])
    THEN iter_stack_from(card_stack, i - 1)
    ELSE i

\* iter_stack without the chain test: the whole column
iter_stack_all(self) == self.cards

\* CardCell::iter_stack
iter_stack(self) ==
    IF self.cards = <<>> THEN <<>>
    ELSE SubSeq(self.cards, iter_stack_from(self.cards, Len(self.cards)),
                Len(self.cards))

----------------------------------------------------------------------------
(* Board: board.rs 158-466                                                 *)

FreeCellIndex(n) == [t |-> "FreeCellIndex", n |-> n]
GoalCellIndex(n) == [t |-> "GoalCellIndex", n |-> n]
GameCellIndex(n) == [t |-> "GameCellIndex", n |-> n]

CardCellIndex ==
    {FreeCellIndex(n) : n \in 1..NumFreeCells}
    \cup {GoalCellIndex(n) : n \in 1..NumGoalCells}
    \cup {GameCellIndex(n) : n \in 1..NumGameCells}

\* Board::new
New(free_cells, joker_cell, goal_cells, game_cells) ==
    [joker_cell |-> JokerCell(joker_cell),
     free_cells |-> [i \in 1..NumFreeCells |-> FreeCell(free_cells[i])],
     goal_cells |-> [i \in 1..NumGoalCells |-> GoalCell(goal_cells[i])],
     game_cells |-> [i \in 1..NumGameCells |-> GameCell(game_cells[i])]]

\* Board::get_cell
get_cell(b, index) ==
    IF index.t = "FreeCellIndex" THEN b.free_cells[index.n]
    ELSE IF index.t = "GoalCellIndex" THEN b.goal_cells[index.n]
    ELSE b.game_cells[index.n]

\* replace_cell whose GoalCellIndex arm writes to free_cells
replace_cell_free(b, index, new_cell) ==
    IF index.t = "FreeCellIndex" THEN [b EXCEPT !.free_cells[index.n] = new_cell]
    ELSE IF index.t = "GoalCellIndex" THEN [b EXCEPT !.free_cells[index.n] = new_cell]
    ELSE [b EXCEPT !.game_cells[index.n] = new_cell]

\* Board::replace_cell
replace_cell(b, index, new_cell) ==
    IF index.t = "FreeCellIndex" THEN [b EXCEPT !.free_cells[index.n] = new_cell]
    ELSE IF index.t = "GoalCellIndex" THEN [b EXCEPT !.goal_cells[index.n] = new_cell]
    ELSE [b EXCEPT !.game_cells[index.n] = new_cell]

\* move_n_cards_by_idx with n compared by >= : a whole run is refused
move_n_cards_strict(b, source, dest, n) ==
    LET stack == iter_stack(b.game_cells[source])
    IN  IF 0 >= n \/ n >= Len(stack) THEN None
        ELSE LET popped == [b EXCEPT !.game_cells[source] = pop_n(@, n)]
                 substack == SubSeq(stack, Len(stack) - n + 1, Len(stack))
                 new_dest == accept_stack(popped.game_cells[dest], substack)
             IN  IF new_dest = None THEN None
                 ELSE Some([popped EXCEPT !.game_cells[dest] = new_dest[1]])

\* Board::move_n_cards_by_idx
move_n_cards_by_idx(b, source, dest, n) ==
    LET stack == iter_stack(b.game_cells[source])
    IN  IF 0 >= n \/ n > Len(stack) THEN None
        ELSE LET popped == [b EXCEPT !.game_cells[source] = pop_n(@, n)]
                 substack == SubSeq(stack, Len(stack) - n + 1, Len(stack))
                 new_dest == accept_stack(popped.game_cells[dest], substack)
             IN  IF new_dest = None THEN None
                 ELSE Some([popped EXCEPT !.game_cells[dest] = new_dest[1]])

\* u8::saturating_sub
saturating_sub(a, c) == IF a >= c THEN a - c ELSE 0

\* move_number_card_stack without the rank difference: the whole run moves
move_whole_run(b, source, dest) ==
    move_n_cards_by_idx(b, source, dest, Len(iter_stack(b.game_cells[source])))

\* Board::move_number_card_stack
move_number_card_stack(b, source, dest) ==
    LET td == top(b.game_cells[dest])
        ts == top(b.game_cells[source])
    IN  IF td = None THEN None
        ELSE IF td[1].k # "NumberCard" THEN None
        ELSE IF ts = None THEN None
        ELSE IF ts[1].k # "NumberCard" THEN None
        ELSE move_n_cards_by_idx(b, source, dest,
                                 saturating_sub(td[1].rank, ts[1].rank))

\* Result<Board, MoveStackError>, plus the panic of CardCell::pop
Ok(b) == [kind |-> "Ok", board |-> Some(b), h |-> 0]
InvalidMove == [kind |-> "InvalidMove", board |-> None, h |-> 0]
AmbiguousMove(h) == [kind |-> "AmbiguousMove", board |-> None, h |-> h]
Panic == [kind |-> "Panic", board |-> None, h |-> 0]
\* Option<Board> as a result
OfOption(o) == IF o = None THEN [kind |-> "None", board |-> None, h |-> 0]
               ELSE Ok(o[1])

\* the single-card tail of move_stack (board.rs 308-326)
move_single_card(b, source, dest) ==
    LET source_cell == get_cell(b, source)
        dest_cell == get_cell(b, dest)
        source_card == top(source_cell)
    IN  IF source_card = None THEN InvalidMove
        ELSE LET new_dest == accept(dest_cell, source_card[1])
             IN  IF new_dest = None THEN InvalidMove
                 ELSE IF pop_panics(source_cell) THEN Panic
                 ELSE Ok(replace_cell(replace_cell(b, dest, new_dest[1]),
                                      source, pop(source_cell)))

\* move_stack that reports one card less than the run holds
move_stack_short(b, source, dest) ==
    IF source = dest THEN InvalidMove
    ELSE IF source.t = "GameCellIndex" /\ dest.t = "GameCellIndex"
    THEN IF top(b.game_cells[dest.n]) # None
         THEN LET r == move_number_card_stack(b, source.n, dest.n)
              IN  IF r = None THEN InvalidMove ELSE Ok(r[1])
         ELSE LET height == Len(iter_stack(b.game_cells[source.n])) - 1
              IN  IF height > 1 THEN AmbiguousMove(height)
                  ELSE move_single_card(b, source, dest)
    ELSE move_single_card(b, source, dest)

\* move_stack that takes a move in place for a move that changes nothing
move_stack_in_place(b, source, dest) ==
    IF source = dest THEN Ok(b)
    ELSE IF source.t = "GameCellIndex" /\ dest.t = "GameCellIndex"
    THEN IF top(b.game_cells[dest.n]) # None
         THEN LET r == move_number_card_stack(b, source.n, dest.n)
              IN  IF r = None THEN InvalidMove ELSE Ok(r[1])
         ELSE LET height == Len(iter_stack(b.game_cells[source.n]))
              IN  IF height > 1 THEN AmbiguousMove(height)
                  ELSE move_single_card(b, source, dest)
    ELSE move_single_card(b, source, dest)

\* Board::move_stack
move_stack(b, source, dest) ==
    IF source = dest THEN InvalidMove
    ELSE IF source.t = "GameCellIndex" /\ dest.t = "GameCellIndex"
    THEN IF top(b.game_cells[dest.n]) # None
         THEN LET r == move_number_card_stack(b, source.n, dest.n)
              IN  IF r = None THEN InvalidMove ELSE Ok(r[1])
         ELSE LET height == Len(iter_stack(b.game_cells[source.n]))
              IN  IF height > 1 THEN AmbiguousMove(height)
                  ELSE move_single_card(b, source, dest)
    ELSE move_single_card(b, source, dest)

\* Board::move_n_cards
move_n_cards(b, source, dest, n) ==
    IF source.t = "GameCellIndex" /\ dest.t = "GameCellIndex"
    THEN OfOption(move_n_cards_by_idx(b, source.n, dest.n, n))
    ELSE Panic

\* game_cells.iter_mut().chain(free_cells.iter_mut()): the scan order of
\* remove_dragons and do_automoves
NumScanned == NumGameCells + NumFreeCells
scan_index(i) ==
    IF i <= NumGameCells THEN GameCellIndex(i) ELSE FreeCellIndex(i - NumGameCells)

\* the loop of remove_dragons from the i-th scanned cell on, `count` removed so far
RECURSIVE remove_dragons_from(_, _, _, _)
remove_dragons_from(b, suit, i, count) ==
    IF i > NumScanned THEN [board |-> b, all |-> FALSE]
    ELSE LET cell == get_cell(b, scan_index(i))
             t == top(cell)
         IN  IF t # None /\ t[1].k = "DragonCard" /\ t[1].suit = suit
             THEN LET nb == replace_cell(b, scan_index(i), pop(cell))
                  IN  IF count + 1 = DragonsPerSuit
                      THEN [board |-> nb, all |-> TRUE]
                      ELSE remove_dragons_from(nb, suit, i + 1, count + 1)
             ELSE remove_dragons_from(b, suit, i + 1, count)

\* remove_dragons that reports success whatever it counted
remove_dragons_unchecked(b, suit) ==
    [board |-> remove_dragons_from(b, suit, 1, 0).board, all |-> TRUE]

\* Board::remove_dragons: the board it leaves and the bool it returns
remove_dragons(b, suit) == remove_dragons_from(b, suit, 1, 0)

\* the free cell stack_dragons fills: the first whose top is None (0: none)
first_open_free_cell(b) ==
    IF \E i \in 1..NumFreeCells : top(b.free_cells[i]) = None
    THEN CHOOSE i \in 1..NumFreeCells :
            /\ top(b.free_cells[i]) = None
            /\ \A j \in 1..(i - 1) : top(b.free_cells[j]) # None
    ELSE 0

\* stack_dragons that puts the DragonStack on the board it was given, the
\* removal lost with the clone
stack_dragons_keep(b, suit) ==
    LET r == remove_dragons(b, suit)
    IN  IF ~r.all THEN None
        ELSE LET i == first_open_free_cell(r.board)
             IN  IF i = 0 THEN None
                 ELSE Some([b EXCEPT !.free_cells[i] = FreeCell(Some(DragonStack))])

\* stack_dragons that hands back the clone when the grouping fails
stack_dragons_partial(b, suit) ==
    LET r == remove_dragons(b, suit)
    IN  IF ~r.all THEN Some(r.board)
        ELSE LET i == first_open_free_cell(r.board)
             IN  IF i = 0 THEN Some(r.board)
                 ELSE Some([r.board EXCEPT
                              !.free_cells[i] = FreeCell(Some(DragonStack))])

\* stack_dragons that looks for the open free cell before the dragons leave
stack_dragons_early(b, suit) ==
    LET r == remove_dragons(b, suit)
        i == first_open_free_cell(b)
    IN  IF ~r.all \/ i = 0 THEN None
        ELSE Some([r.board EXCEPT !.free_cells[i] = FreeCell(Some(DragonStack))])

\* Board::stack_dragons
stack_dragons(b, suit) ==
    LET r == remove_dragons(b, suit)
    IN  IF ~r.all THEN None
        ELSE LET i == first_open_free_cell(r.board)
             IN  IF i = 0 THEN None
                 ELSE Some([r.board EXCEPT
                              !.free_cells[i] = FreeCell(Some(DragonStack))])

\* is_solved that returns from its loop at the first column, empty or not
is_solved_first(b) == top(b.game_cells[1]) = None

\* Board::is_solved
is_solved(b) == \A i \in 1..NumGameCells : top(b.game_cells[i]) = None

\* rank of the top of a goal cell, None => 0
goal_rank(cell) == IF top(cell) = None THEN 0 ELSE top(cell)[1].rank

Min(S) == CHOOSE x \in S : \A y \in S : x <= y

\* auto_safe_rank taken from the highest goal pile instead of the lowest
auto_safe_rank_max(b) ==
    (CHOOSE m \in {goal_rank(b.goal_cells[i]) : i \in 1..NumGoalCells} :
        \A i \in 1..NumGoalCells : goal_rank(b.goal_cells[i]) <= m) + 2

\* Board::auto_safe_rank
auto_safe_rank(b) ==
    Min({goal_rank(b.goal_cells[i]) : i \in 1..NumGoalCells}) + 2

\* move_card that never pops the source
move_card_keep(source, dest) ==
    LET a == accept(dest, top(source)[1])
    IN  IF a # None
        THEN [moved |-> TRUE, source |-> source, dest |-> a[1]]
        ELSE [moved |-> FALSE, source |-> source, dest |-> dest]

\* Board::move_card on the pair (source, dest) of cells
move_card(source, dest) ==
    LET a == accept(dest, top(source)[1])
    IN  IF a # None
        THEN [moved |-> TRUE, source |-> pop(source), dest |-> a[1]]
        ELSE [moved |-> FALSE, source |-> source, dest |-> dest]

\* the inner loop of do_automoves over the goal cells g, g+1, ...
RECURSIVE automove_to_goal(_, _, _)
automove_to_goal(b, index, g) ==
    IF g > NumGoalCells THEN [board |-> b, did |-> FALSE]
    ELSE LET m == move_card(get_cell(b, index), b.goal_cells[g])
         IN  IF m.moved
             THEN [board |-> replace_cell([b EXCEPT !.goal_cells[g] = m.dest],
                                          index, m.source),
                   did |-> TRUE]
             ELSE automove_to_goal(b, index, g + 1)

\* one cell of a pass of do_automoves (board.rs 444-460)
automove_cell(b, index, safe_rank) ==
    LET t == top(get_cell(b, index))
    IN  IF t = None THEN [board |-> b, did |-> FALSE]
        ELSE IF t[1].k = "JokerCard"
        THEN LET m == move_card(get_cell(b, index), b.joker_cell)
             IN  IF m.moved
                 THEN [board |-> replace_cell([b EXCEPT !.joker_cell = m.dest],
                                              index, m.source),
                       did |-> TRUE]
                 ELSE [board |-> b, did |-> FALSE]
        ELSE IF t[1].k = "NumberCard" /\ t[1].rank <= safe_rank
        THEN automove_to_goal(b, index, 1)
        ELSE [board |-> b, did |-> FALSE]

\* one pass of the for loop of do_automoves from the i-th scanned cell on
RECURSIVE automove_pass(_, _, _, _)
automove_pass(b, i, safe_rank, progress) ==
    IF i > NumScanned THEN [board |-> b, progress |-> progress]
    ELSE LET r == automove_cell(b, scan_index(i), safe_rank)
         IN  IF r.did THEN automove_pass(r.board, i + 1, safe_rank, TRUE)
             ELSE automove_pass(b, i + 1, safe_rank, progress)

\* do_automoves without the while loop: one pass over the cells
automove_once(b, safe_rank) == automove_pass(b, 1, safe_rank, FALSE).board

\* the while loop of do_automoves
RECURSIVE automove_loop(_, _)
automove_loop(b, safe_rank) ==
    LET r == automove_pass(b, 1, safe_rank, FALSE)
    IN  IF r.progress THEN automove_loop(r.board, auto_safe_rank(r.board))
        ELSE r.board

\* do_automoves that returns its clone untouched
do_automoves_none(b) == b

\* Board::do_automoves
do_automoves(b) == automove_loop(b, auto_safe_rank(b))

----------------------------------------------------------------------------
(* Canonical equality and hashing: board.rs 12-49 (derived Ord), 468-488    *)

\* derive(Ord) on Suit and on Card: discriminant first, then the fields
suit_ord(s) == CHOOSE i \in 1..3 : Suits[i] = s
card_variant(c) ==
    IF c.k = "JokerCard" THEN 0
    ELSE IF c.k = "DragonCard" THEN 1
    ELSE IF c.k = "NumberCard" THEN 2
    ELSE 3

\* Ord::cmp on Card: -1, 0 or 1
cmp_card(a, c) ==
    IF card_variant(a) # card_variant(c)
    THEN IF card_variant(a) < card_variant(c) THEN -1 ELSE 1
    ELSE IF suit_ord(a.suit) # suit_ord(c.suit)
    THEN IF suit_ord(a.suit) < suit_ord(c.suit) THEN -1 ELSE 1
    ELSE IF a.rank # c.rank
    THEN IF a.rank < c.rank THEN -1 ELSE 1
    ELSE 0

\* Ord::cmp on Vec<Rc<Card>> and Option<Rc<Card>>: lexicographic, None first
RECURSIVE cmp_cards(_, _, _)
cmp_cards(x, y, i) ==
    IF i > Len(x) /\ i > Len(y) THEN 0
    ELSE IF i > Len(x) THEN -1
    ELSE IF i > Len(y) THEN 1
    ELSE IF cmp_card(x[i], y[i]) # 0 THEN cmp_card(x[i], y[i])
    ELSE cmp_cards(x, y, i + 1)

\* Ord::cmp on two CardCells of the same kind
cmp_cell(x, y) == cmp_cards(x.cards, y.cards, 1)

\* insertion of a cell into a sorted sequence of cells
RECURSIVE sorted_insert(_, _)
sorted_insert(s, x) ==
    IF s = <<>> THEN <<x>>
    ELSE IF cmp_cell(x, s[1]) < 0 THEN <<x>> \o s
    ELSE <<s[1]>> \o sorted_insert(Tail(s), x)

\* itertools::sorted over an array of cells
RECURSIVE sorted_upto(_, _)
sorted_upto(cells, n) ==
    IF n = 0 THEN <<>> ELSE sorted_insert(sorted_upto(cells, n - 1), cells[n])
\* no sorting: the cells in slot order
unsorted(cells) == cells
sorted(cells) == sorted_upto(cells, Len(cells))

\* impl PartialEq for Board
board_eq(a, c) ==
    /\ a.joker_cell = c.joker_cell
    /\ sorted(a.game_cells) = sorted(c.game_cells)
    /\ sorted(a.free_cells) = sorted(c.free_cells)
    /\ sorted(a.goal_cells) = sorted(c.goal_cells)

\* impl Hash for Board: the sequence of values fed to the hasher
board_hash(b) ==
    <<b.joker_cell, sorted(b.game_cells), sorted(b.free_cells),
      sorted(b.goal_cells)>>

----------------------------------------------------------------------------
(* Boards built with Board::new: the fixtures of the solver's tests and    *)
(* further well-formed 40-card layouts                                     *)

\* solver.rs tests::fast_win
FastWin ==
    New(<<<<DragonCard("Green")>>, <<DragonStack>>, <<DragonStack>>>>,
        TRUE,
        <<<<NumberCard("Red", 9)>>, <<NumberCard("Black", 4)>>, <<NumberCard("Green", 1)>>>>,
        <<<<>>,
          <<NumberCard("Green", 4)>>,
          <<NumberCard("Black", 9), NumberCard("Green", 8), NumberCard("Black", 7), NumberCard("Green", 6)>>,
          <<NumberCard("Black", 5), NumberCard("Green", 3)>>,
          <<DragonCard("Green"), NumberCard("Green", 2), DragonCard("Green")>>,
          <<DragonCard("Green")>>,
          <<>>,
          <<NumberCard("Green", 9), NumberCard("Black", 8), NumberCard("Green", 7), NumberCard("Black", 6), NumberCard("Green", 5)>>>>)

\* solver.rs tests::very_easy
VeryEasy ==
    New(<<<<DragonStack>>, <<DragonStack>>, <<DragonCard("Green")>>>>,
        TRUE,
        <<<<NumberCard("Red", 9)>>, <<NumberCard("Black", 9)>>, <<NumberCard("Green", 9)>>>>,
        <<<<>>,
          <<>>,
          <<DragonCard("Green"), DragonCard("Green")>>,
          <<>>,
          <<>>,
          <<DragonCard("Green")>>,
          <<>>,
          <<>>>>)

\* a board with no legal move and no automove
Stuck ==
    New(<<<<DragonCard("Red")>>, <<DragonCard("Green")>>, <<DragonCard("Black")>>>>,
        FALSE,
        <<<<>>, <<>>, <<>>>>,
        <<<<JokerCard, NumberCard("Black", 1), NumberCard("Green", 1), NumberCard("Red", 1), NumberCard("Red", 9)>>,
          <<NumberCard("Black", 2), NumberCard("Green", 2), NumberCard("Red", 2), NumberCard("Black", 3), NumberCard("Green", 9)>>,
          <<NumberCard("Green", 3), NumberCard("Red", 3), NumberCard("Black", 4), NumberCard("Green", 4), NumberCard("Black", 9)>>,
          <<NumberCard("Red", 4), NumberCard("Black", 5), NumberCard("Green", 5), NumberCard("Red", 5), DragonCard("Red")>>,
          <<NumberCard("Black", 6), NumberCard("Green", 6), NumberCard("Red", 6), NumberCard("Black", 7), DragonCard("Green")>>,
          <<NumberCard("Green", 7), NumberCard("Red", 7), NumberCard("Black", 8), NumberCard("Green", 8), DragonCard("Black")>>,
          <<NumberCard("Red", 8), DragonCard("Red"), DragonCard("Green"), DragonCard("Black"), DragonCard("Red")>>,
          <<DragonCard("Green"), DragonCard("Black")>>>>)

\* a mid-game board: runs, an empty column, exposed dragons, a Joker
MidGame ==
    New(<<<<DragonCard("Red")>>, <<>>, <<NumberCard("Green", 9)>>>>,
        FALSE,
        <<<<>>, <<>>, <<>>>>,
        <<<<DragonCard("Green"), DragonCard("Green"), NumberCard("Black", 9), NumberCard("Red", 8), NumberCard("Green", 6), NumberCard("Red", 5), NumberCard("Black", 4)>>,
          <<DragonCard("Green"), DragonCard("Green"), NumberCard("Red", 9), NumberCard("Black", 7)>>,
          <<NumberCard("Black", 1), NumberCard("Black", 6), NumberCard("Red", 6), DragonCard("Black")>>,
          <<DragonCard("Black"), NumberCard("Red", 1), NumberCard("Green", 8), NumberCard("Red", 7), DragonCard("Red")>>,
          <<DragonCard("Black"), NumberCard("Red", 2), NumberCard("Black", 5), NumberCard("Green", 7), DragonCard("Red")>>,
          <<NumberCard("Green", 3), NumberCard("Green", 5), NumberCard("Black", 3), NumberCard("Red", 4), DragonCard("Red")>>,
          <<DragonCard("Black"), NumberCard("Black", 8), NumberCard("Green", 4), NumberCard("Red", 3), NumberCard("Black", 2), NumberCard("Green", 2), NumberCard("Green", 1), JokerCard>>,
          <<>>>>)

\* four exposed dragons and no free cell for them
NoFreeSlot ==
    New(<<<<NumberCard("Black", 9)>>, <<NumberCard("Green", 9)>>, <<NumberCard("Red", 9)>>>>,
        TRUE,
        <<<<NumberCard("Red", 3)>>, <<NumberCard("Green", 2)>>, <<NumberCard("Black", 1)>>>>,
        <<<<DragonCard("Black")>>,
          <<DragonCard("Black")>>,
          <<NumberCard("Green", 7), DragonCard("Black")>>,
          <<NumberCard("Red", 7), NumberCard("Green", 6), DragonCard("Black")>>,
          <<DragonCard("Green"), DragonCard("Green"), DragonCard("Green"), NumberCard("Black", 8), NumberCard("Red", 4)>>,
          <<DragonCard("Red"), DragonCard("Red"), DragonCard("Red"), DragonCard("Red"), NumberCard("Red", 6), NumberCard("Black", 7), NumberCard("Black", 5), NumberCard("Green", 4)>>,
          <<DragonCard("Green"), NumberCard("Green", 8), NumberCard("Red", 5), NumberCard("Black", 6), NumberCard("Black", 4), NumberCard("Green", 3)>>,
          <<NumberCard("Red", 8), NumberCard("Green", 5), NumberCard("Black", 2), NumberCard("Black", 3)>>>>)

\* a deal: the deck in 8 columns of 5
Dealt ==
    New(<<<<>>, <<>>, <<>>>>,
        FALSE,
        <<<<>>, <<>>, <<>>>>,
        <<<<DragonCard("Red"), NumberCard("Black", 7), NumberCard("Green", 1), NumberCard("Red", 9), DragonCard("Green")>>,
          <<NumberCard("Black", 4), DragonCard("Black"), NumberCard("Red", 3), NumberCard("Green", 8), NumberCard("Black", 1)>>,
          <<JokerCard, NumberCard("Green", 5), DragonCard("Red"), NumberCard("Black", 9), NumberCard("Red", 2)>>,
          <<NumberCard("Green", 3), NumberCard("Red", 7), DragonCard("Black"), NumberCard("Black", 6), NumberCard("Green", 2)>>,
          <<DragonCard("Green"), NumberCard("Red", 5), NumberCard("Black", 2), NumberCard("Green", 9), NumberCard("Red", 1)>>,
          <<NumberCard("Black", 8), DragonCard("Red"), NumberCard("Green", 6), DragonCard("Black"), NumberCard("Red", 4)>>,
          <<NumberCard("Red", 6), NumberCard("Green", 4), DragonCard("Green"), NumberCard("Black", 3), NumberCard("Green", 7)>>,
          <<NumberCard("Red", 8), NumberCard("Black", 5), DragonCard("Black"), DragonCard("Green"), DragonCard("Red")>>>>)

InitBoards == {VeryEasy, Stuck, MidGame, NoFreeSlot, Dealt}

----------------------------------------------------------------------------
(* A caller of the board API: it calls one operation on its current board, *)
(* gets the result, and either adopts the returned board or drops it       *)

NoIndex == [t |-> "none", n |-> 0]
NoCall == [op |-> "none", source |-> NoIndex, dest |-> NoIndex, n |-> 0,
           suit |-> "Black"]
NoRet == [kind |-> "none", board |-> None, h |-> 0]
\* the locals of do_automoves while no call of it is in progress
NoAuto == [self |-> None, i |-> 0, safe_rank |-> 0, progress |-> FALSE]
GameIndexes == {GameCellIndex(n) : n \in 1..NumGameCells}

\* enum GameMode (game.rs 11-15)
SelectSource == [t |-> "SelectSource"]
SelectDestination(c) == [t |-> "SelectDestination", cursor |-> c]
ChooseStackHeight(c, height, max_height) ==
    [t |-> "ChooseStackHeight", cursor |-> c, height |-> height,
     max_height |-> max_height]

\* no interactive game is running
NoGame ==
    /\ cursor = 0
    /\ mode = SelectSource
    /\ key = "none"

SolverIdle ==
    /\ start = None
    /\ open_set = <<>>
    /\ path = <<>>
    /\ closed_set = {}
    /\ gscores = <<>>
    /\ result = [kind |-> "none", path |-> <<>>, iter |-> 0]

Init ==
    /\ board \in InitBoards
    /\ call = NoCall
    /\ ret = NoRet
    /\ pc = "idle"
    /\ steps = 0
    /\ NoGame
    /\ auto = NoAuto
    /\ SolverIdle

CallMoveStack(source, dest) ==
    /\ pc = "idle"
    /\ call' = [NoCall EXCEPT !.op = "move_stack", !.source = source, !.dest = dest]
    /\ ret' = move_stack(board, source, dest)
    /\ pc' = "returned"
    /\ UNCHANGED <<board, steps, auto>>
    /\ UNCHANGED <<solverVars, gameVars>>

CallMoveNCards(source, dest, n) ==
    /\ pc = "idle"
    /\ call' = [NoCall EXCEPT !.op = "move_n_cards", !.source = source,
                              !.dest = dest, !.n = n]
    /\ ret' = move_n_cards(board, source, dest, n)
    /\ pc' = "returned"
    /\ UNCHANGED <<board, steps, auto>>
    /\ UNCHANGED <<solverVars, gameVars>>

CallStackDragons(suit) ==
    /\ pc = "idle"
    /\ call' = [NoCall EXCEPT !.op = "stack_dragons", !.suit = suit]
    /\ ret' = OfOption(stack_dragons(board, suit))
    /\ pc' = "returned"
    /\ UNCHANGED <<board, steps, auto>>
    /\ UNCHANGED <<solverVars, gameVars>>

CallDoAutomoves ==
    /\ pc = "idle"
    /\ call' = [NoCall EXCEPT !.op = "do_automoves"]
    /\ ret' = Ok(do_automoves(board))
    /\ pc' = "returned"
    /\ UNCHANGED <<board, steps, auto>>
    /\ UNCHANGED <<solverVars, gameVars>>

\* the caller takes the returned board as its current board
Adopt ==
    /\ pc = "returned"
    /\ ret.kind = "Ok"
    /\ steps < MaxSteps
    /\ board' = ret.board[1]
    /\ steps' = steps + 1
    /\ call' = NoCall
    /\ ret' = NoRet
    /\ pc' = "idle"
    /\ UNCHANGED auto
    /\ UNCHANGED <<solverVars, gameVars>>

\* the caller drops the result (the only choice when no board came back)
Drop ==
    /\ pc = "returned"
    /\ ret.kind # "Panic"
    /\ call' = NoCall
    /\ ret' = NoRet
    /\ pc' = "idle"
    /\ UNCHANGED <<board, steps, auto>>
    /\ UNCHANGED <<solverVars, gameVars>>

Next ==
    \/ \E source \in CardCellIndex, dest \in CardCellIndex :
          CallMoveStack(source, dest)
    \/ \E source \in GameIndexes, dest \in GameIndexes, n \in 0..MaxN :
          CallMoveNCards(source, dest, n)
    \/ \E suit \in SuitSet : CallStackDragons(suit)
    \/ CallDoAutomoves
    \/ Adopt
    \/ Drop

Spec == Init /\ [][Next]_vars

----------------------------------------------------------------------------
(* Solver: solver.rs                                                       *)

\* SOURCE_SLOTS
SOURCE_SLOTS ==
    [i \in 1..(NumFreeCells + NumGameCells) |->
        IF i <= NumFreeCells THEN FreeCellIndex(i)
        ELSE GameCellIndex(i - NumFreeCells)]

\* DEST_SLOTS
DEST_SLOTS ==
    [i \in 1..(NumGoalCells + NumFreeCells + NumGameCells) |->
        IF i <= NumGoalCells THEN GoalCellIndex(i)
        ELSE IF i <= NumGoalCells + NumFreeCells THEN FreeCellIndex(i - NumGoalCells)
        ELSE GameCellIndex(i - NumGoalCells - NumFreeCells)]

\* the elements of a sequence that satisfy keep, in order
RECURSIVE SelectIdx(_, _, _)
SelectIdx(s, keep, i) ==
    IF i > Len(s) THEN <<>>
    ELSE (IF i \in keep THEN <<s[i]>> ELSE <<>>) \o SelectIdx(s, keep, i + 1)

SumSeq(s) ==
    LET RECURSIVE upto(_)
        upto(n) == IF n = 0 THEN 0 ELSE s[n] + upto(n - 1)
    IN  upto(Len(s))

\* the sum of num, not of num - 1: every dragon of a column counts
trapped_in_all(card_stack) ==
    Cardinality({i \in 1..Len(card_stack) : card_stack[i].k = "DragonCard"})

\* counter() of the dragon suits of a column, then sum of (num - 1)
trapped_in(card_stack) ==
    LET num(su) == Cardinality({i \in 1..Len(card_stack) :
                        card_stack[i].k = "DragonCard" /\ card_stack[i].suit = su})
    IN  SumSeq([j \in 1..3 |-> IF num(Suits[j]) > 0 THEN num(Suits[j]) - 1 ELSE 0])

\* estimated_moves_to_solve
estimated_moves_to_solve(b) ==
    LET ungoaled_numcards ==
            SumSeq([i \in 1..NumGoalCells |-> MaxRank - goal_rank(b.goal_cells[i])])
        ungrouped_dragon_suits ==
            SumSeq([i \in 1..NumFreeCells |->
                      IF top(b.free_cells[i]) = Some(DragonStack) THEN 0 ELSE 1])
        trapped_dragons ==
            IF ungrouped_dragon_suits = 0 THEN 0
            ELSE SumSeq([i \in 1..NumGameCells |-> trapped_in(b.game_cells[i].cards)])
    IN  ungoaled_numcards + trapped_dragons + ungrouped_dragon_suits

\* the filter closure that keeps no empty column at all
valid_dest_occupied(b, i) ==
    LET slot == DEST_SLOTS[i]
        top_card == top(get_cell(b, slot))
        seen == \E j \in 1..(i - 1) :
                    /\ DEST_SLOTS[j].t = slot.t
                    /\ top(get_cell(b, DEST_SLOTS[j])) = None
    IN  IF slot.t = "FreeCellIndex" THEN top_card = None /\ ~seen
        ELSE IF slot.t = "GameCellIndex"
        THEN IF top_card # None THEN top_card[1].k = "NumberCard" ELSE FALSE
        ELSE top_card # None

\* the filter closure without seen_free_cell and seen_free_game_cell: every
\* empty free cell and column passes
valid_dest_all(b, i) ==
    LET slot == DEST_SLOTS[i]
        top_card == top(get_cell(b, slot))
    IN  IF slot.t = "FreeCellIndex" THEN top_card = None
        ELSE IF slot.t = "GameCellIndex"
        THEN IF top_card # None THEN top_card[1].k = "NumberCard" ELSE TRUE
        ELSE top_card # None

\* the filter closure of get_valid_dests on the i-th destination slot
valid_dest(b, i) ==
    LET slot == DEST_SLOTS[i]
        top_card == top(get_cell(b, slot))
        \* an earlier slot of the same kind was empty: seen_free_cell,
        \* seen_free_game_cell
        seen == \E j \in 1..(i - 1) :
                    /\ DEST_SLOTS[j].t = slot.t
                    /\ top(get_cell(b, DEST_SLOTS[j])) = None
    IN  IF slot.t = "FreeCellIndex" THEN top_card = None /\ ~seen
        ELSE IF slot.t = "GameCellIndex"
        THEN IF top_card # None THEN top_card[1].k = "NumberCard" ELSE ~seen
        ELSE top_card # None

\* get_valid_dests
get_valid_dests(b) ==
    SelectIdx(DEST_SLOTS, {i \in DOMAIN DEST_SLOTS : valid_dest(b, i)}, 1)

\* the source_slots filter of next_states
source_slots(b) ==
    SelectIdx(SOURCE_SLOTS,
              {i \in DOMAIN SOURCE_SLOTS :
                  LET top_card == top(get_cell(b, SOURCE_SLOTS[i]))
                  IN  top_card # None /\ top_card[1].k # "DragonStack"}, 1)

\* the stack_dragons loop of next_states, from the j-th suit on
RECURSIVE dragon_states(_, _)
dragon_states(b, j) ==
    IF j > Len(Suits) THEN <<>>
    ELSE (IF stack_dragons(b, Suits[j]) # None
          THEN <<do_automoves(stack_dragons(b, Suits[j])[1])>>
          ELSE <<>>) \o dragon_states(b, j + 1)

\* the AmbiguousMove arm of next_states: heights height..max_height
RECURSIVE height_states(_, _, _, _, _)
height_states(b, source_slot, dest_slot, height, max_height) ==
    IF height > max_height THEN <<>>
    ELSE LET r == move_n_cards(b, source_slot, dest_slot, height)
         IN  (IF r.kind = "Ok" THEN <<do_automoves(r.board[1])>> ELSE <<>>)
             \o height_states(b, source_slot, dest_slot, height + 1, max_height)

\* the AmbiguousMove arm taking the whole run only: one successor, of height
\* max_height
pair_states_whole(b, source_slot, dest_slot) ==
    LET r == move_stack(b, source_slot, dest_slot)
    IN  IF r.kind = "Ok" THEN <<do_automoves(r.board[1])>>
        ELSE IF r.kind = "AmbiguousMove"
        THEN height_states(b, source_slot, dest_slot, r.h, r.h)
        ELSE <<>>

\* the body of the two for loops of next_states for one (source, dest) pair
pair_states(b, source_slot, dest_slot) ==
    LET r == move_stack(b, source_slot, dest_slot)
    IN  IF r.kind = "Ok" THEN <<do_automoves(r.board[1])>>
        ELSE IF r.kind = "AmbiguousMove"
        THEN height_states(b, source_slot, dest_slot, 1, r.h)
        ELSE <<>>

\* the inner for loop of next_states over the destinations, from the j-th on
RECURSIVE dest_states(_, _, _, _)
dest_states(b, source_slot, dests, j) ==
    IF j > Len(dests) THEN <<>>
    ELSE pair_states(b, source_slot, dests[j])
         \o dest_states(b, source_slot, dests, j + 1)

\* the outer for loop of next_states over the sources, from the i-th on
RECURSIVE move_states(_, _, _, _)
move_states(b, sources, dests, i) ==
    IF i > Len(sources) THEN <<>>
    ELSE dest_states(b, sources[i], dests, 1)
         \o move_states(b, sources, dests, i + 1)

\* next_states
next_states(b) ==
    dragon_states(b, 1) \o move_states(b, source_slots(b), get_valid_dests(b), 1)

\* HashMap<Rc<Board>, V> and HashSet<Rc<Board>>: a key is found by Hash and
\* Eq of Board, both functions of board_hash, so an entry is kept per value
\* of board_hash
EmptyMap == [k \in {} |-> 0]
map_has(m, k) == board_hash(k) \in DOMAIN m
map_get(m, k) == m[board_hash(k)]
map_insert(m, k, v) ==
    LET h == board_hash(k)
    IN  [x \in DOMAIN m \cup {h} |-> IF x = h THEN v ELSE m[x]]
map_remove(m, k) ==
    LET h == board_hash(k)
    IN  [x \in DOMAIN m \ {h} |-> m[x]]
set_contains(st, k) == board_hash(k) \in st
set_insert(st, k) == st \cup {board_hash(k)}

\* reconstruct_path: the loop, result built by push_front
RECURSIVE reconstruct_from(_, _, _)
reconstruct_from(m, b, acc) ==
    IF map_has(m, b)
    THEN reconstruct_from(map_remove(m, b), map_get(m, b), <<map_get(m, b)>> \o acc)
    ELSE acc
\* reconstruct_path with push_back: the path from the goal to the start
reconstruct_path_back(m, b) ==
    LET p == reconstruct_from(m, b, <<b>>)
    IN  [i \in 1..Len(p) |-> p[Len(p) + 1 - i]]
reconstruct_path(m, b) == reconstruct_from(m, b, <<b>>)

\* the for loop of solve_rc over the successors, from the i-th on;
\* st holds path, gscores and open_set
RECURSIVE relax_from(_, _, _, _, _, _)
relax_from(states, i, b, gscore, closed, st) ==
    IF i > Len(states) THEN st
    ELSE LET next_board == states[i]
         IN  IF set_contains(closed, next_board)
             THEN relax_from(states, i + 1, b, gscore, closed, st)
             ELSE IF map_has(st.gscores, next_board)
                     /\ map_get(st.gscores, next_board) < gscore
             THEN relax_from(states, i + 1, b, gscore, closed, st)
             ELSE relax_from(states, i + 1, b, gscore, closed,
                    [path |-> map_insert(st.path, next_board, b),
                     gscores |-> map_insert(st.gscores, next_board, gscore),
                     open_set |-> Append(st.open_set,
                        [fscore |-> estimated_moves_to_solve(next_board) + gscore,
                         board |-> next_board])])

\* BinaryHeap::pop with the Ord of fscore itself: an entry of greatest fscore
poppable_max(heap) ==
    {i \in DOMAIN heap : \A j \in DOMAIN heap : heap[i].fscore >= heap[j].fscore}

\* BinaryHeap::pop with the reversed Ord of AStarState: an entry of least
\* fscore; which one among equals is left to the heap
poppable(heap) ==
    {i \in DOMAIN heap : \A j \in DOMAIN heap : heap[i].fscore <= heap[j].fscore}
heap_without(heap, i) == SelectIdx(heap, DOMAIN heap \ {i}, 1)

Won ==
    New(<<Some(DragonStack), Some(DragonStack), Some(DragonStack)>>, TRUE,
        <<Some(NumberCard("Red", 9)), Some(NumberCard("Black", 9)),
          Some(NumberCard("Green", 9))>>,
        <<<<>>, <<>>, <<>>, <<>>, <<>>, <<>>, <<>>, <<>>>>)

\* all 12 dragons grouped, the 7s, 8s and 9s left in three columns
EndGame ==
    New(<<Some(DragonStack), Some(DragonStack), Some(DragonStack)>>, TRUE,
        <<Some(NumberCard("Red", 6)), Some(NumberCard("Green", 6)),
          Some(NumberCard("Black", 6))>>,
        <<<<NumberCard("Red", 7), NumberCard("Green", 9), NumberCard("Black", 9)>>,
          <<NumberCard("Green", 7), NumberCard("Red", 8), NumberCard("Red", 9)>>,
          <<NumberCard("Black", 7), NumberCard("Green", 8), NumberCard("Black", 8)>>,
          <<>>, <<>>, <<>>, <<>>, <<>>>>)

\* VeryEasy with the Green 9 still on a column, waiting for an automove
Pending ==
    New(<<Some(DragonStack), Some(DragonStack), Some(DragonCard("Green"))>>, TRUE,
        <<Some(NumberCard("Red", 9)), Some(NumberCard("Black", 9)),
          Some(NumberCard("Green", 8))>>,
        <<<<>>, <<>>, <<DragonCard("Green"), DragonCard("Green")>>, <<>>,
          <<NumberCard("Green", 9)>>, <<DragonCard("Green")>>, <<>>, <<>>>>)

\* the boards one successful move_stack away from b
OneMove(b) ==
    {move_stack(b, source, dest).board[1] :
        <<source, dest>> \in {p \in CardCellIndex \X CardCellIndex :
            move_stack(b, p[1], p[2]).kind = "Ok"}}

SolveBoards ==
    {FastWin, VeryEasy, Pending, Stuck, Won, EndGame} \cup OneMove(VeryEasy)

\* solve_rc up to the while loop (solver.rs 208-217)
InitSolve ==
    /\ \E b \in SolveBoards :
        /\ start = Some(b)
        /\ board = b
        /\ open_set = <<[fscore |-> estimated_moves_to_solve(b), board |-> b]>>
        /\ gscores = map_insert(EmptyMap, b, 0)
    /\ path = EmptyMap
    /\ closed_set = {}
    /\ result = [kind |-> "none", path |-> <<>>, iter |-> 0]
    /\ call = NoCall
    /\ ret = NoRet
    /\ pc = "solving"
    /\ steps = 0
    /\ NoGame
    /\ auto = NoAuto

\* an iteration of the while loop that pops a solved board (solver.rs 219-222)
SolveReturn ==
    /\ result.kind = "none"
    /\ \E i \in poppable(open_set) :
        /\ is_solved(open_set[i].board)
        /\ result' = [result EXCEPT !.kind = "Some",
                        !.path = reconstruct_path(path, open_set[i].board)]
        /\ open_set' = heap_without(open_set, i)
    /\ UNCHANGED <<start, path, closed_set, gscores>>
    /\ UNCHANGED <<boardVars, gameVars>>

\* the while loop with BinaryHeap::peek for pop: the board expanded stays in
\* open_set
SolveExpandPeek ==
    /\ result.kind = "none"
    /\ result.iter < MaxIter
    /\ \E i \in poppable(open_set) :
        LET b == open_set[i].board
            closed == set_insert(closed_set, b)
            gscore == map_get(gscores, b) + 1
            st == relax_from(next_states(b), 1, b, gscore, closed,
                             [path |-> path, gscores |-> gscores,
                              open_set |-> open_set])
        IN  /\ ~is_solved(b)
            /\ closed_set' = closed
            /\ path' = st.path
            /\ gscores' = st.gscores
            /\ open_set' = st.open_set
    /\ result' = [result EXCEPT !.iter = @ + 1]
    /\ UNCHANGED start
    /\ UNCHANGED <<boardVars, gameVars>>

\* the while loop with the `+ 1` of gscore forgotten
SolveExpandFlat ==
    /\ result.kind = "none"
    /\ result.iter < MaxIter
    /\ \E i \in poppable(open_set) :
        LET b == open_set[i].board
            closed == set_insert(closed_set, b)
            gscore == map_get(gscores, b)
            st == relax_from(next_states(b), 1, b, gscore, closed,
                             [path |-> path, gscores |-> gscores,
                              open_set |-> heap_without(open_set, i)])
        IN  /\ ~is_solved(b)
            /\ closed_set' = closed
            /\ path' = st.path
            /\ gscores' = st.gscores
            /\ open_set' = st.open_set
    /\ result' = [result EXCEPT !.iter = @ + 1]
    /\ UNCHANGED start
    /\ UNCHANGED <<boardVars, gameVars>>

\* an iteration of the while loop that expands a board (solver.rs 219-249)
SolveExpand ==
    /\ result.kind = "none"
    /\ result.iter < MaxIter
    /\ \E i \in poppable(open_set) :
        LET b == open_set[i].board
            closed == set_insert(closed_set, b)
            gscore == map_get(gscores, b) + 1
            st == relax_from(next_states(b), 1, b, gscore, closed,
                             [path |-> path, gscores |-> gscores,
                              open_set |-> heap_without(open_set, i)])
        IN  /\ ~is_solved(b)
            /\ closed_set' = closed
            /\ path' = st.path
            /\ gscores' = st.gscores
            /\ open_set' = st.open_set
    /\ result' = [result EXCEPT !.iter = @ + 1]
    /\ UNCHANGED start
    /\ UNCHANGED <<boardVars, gameVars>>

\* the while loop ends on an empty open_set (solver.rs 251)
SolveNone ==
    /\ result.kind = "none"
    /\ open_set = <<>>
    /\ result' = [result EXCEPT !.kind = "None"]
    /\ UNCHANGED <<start, open_set, path, closed_set, gscores>>
    /\ UNCHANGED <<boardVars, gameVars>>

NextSolve == SolveReturn \/ SolveExpand \/ SolveNone

SpecSolve == InitSolve /\ [][NextSolve]_vars

----------------------------------------------------------------------------
(* do_automoves step by step: board.rs 436-465. `board` is the clone the   *)
(* loops work on, `auto` holds the receiver and the locals                  *)

\* a 40-card board whose automoves raise the safe rank within a pass
Cascade ==
    New(<<<<>>, <<>>, <<>>>>,
        FALSE,
        <<<<>>, <<>>, <<>>>>,
        <<<<DragonCard("Black"), DragonCard("Black"), DragonCard("Black"), DragonCard("Black"), NumberCard("Red", 9), NumberCard("Red", 1)>>,
          <<DragonCard("Green"), DragonCard("Green"), DragonCard("Green"), DragonCard("Green"), NumberCard("Green", 9), NumberCard("Green", 1)>>,
          <<DragonCard("Red"), DragonCard("Red"), DragonCard("Red"), DragonCard("Red"), NumberCard("Black", 9), NumberCard("Black", 1)>>,
          <<NumberCard("Red", 8), NumberCard("Green", 8), NumberCard("Black", 8), NumberCard("Red", 7), NumberCard("Red", 2)>>,
          <<NumberCard("Green", 7), NumberCard("Black", 7), NumberCard("Red", 6), NumberCard("Green", 6), NumberCard("Green", 2)>>,
          <<NumberCard("Black", 6), NumberCard("Red", 5), NumberCard("Green", 5), NumberCard("Black", 5), NumberCard("Black", 2)>>,
          <<NumberCard("Red", 4), NumberCard("Green", 4), NumberCard("Black", 4), JokerCard, NumberCard("Red", 3)>>,
          <<NumberCard("Green", 3), NumberCard("Black", 3)>>>>)

\* board.rs tests::automove_jokers
AutomoveJokers ==
    New(<<<<>>, <<>>, <<>>>>,
        FALSE,
        <<<<>>, <<>>, <<>>>>,
        <<<<>>,
          <<>>,
          <<>>,
          <<JokerCard>>,
          <<>>,
          <<>>,
          <<>>,
          <<>>>>)

\* board.rs tests::automove_1
AutomoveOne ==
    New(<<<<>>, <<>>, <<>>>>,
        FALSE,
        <<<<>>, <<>>, <<>>>>,
        <<<<>>,
          <<>>,
          <<>>,
          <<>>,
          <<>>,
          <<NumberCard("Green", 1)>>,
          <<>>,
          <<>>>>)

\* board.rs tests::automove_many
AutomoveMany ==
    New(<<<<>>, <<>>, <<>>>>,
        FALSE,
        <<<<>>, <<>>, <<>>>>,
        <<<<>>,
          <<>>,
          <<>>,
          <<NumberCard("Red", 2), NumberCard("Red", 9), NumberCard("Black", 2)>>,
          <<NumberCard("Black", 1), NumberCard("Red", 1), NumberCard("Green", 2), NumberCard("Green", 1)>>,
          <<>>,
          <<>>,
          <<>>>>)

\* board.rs tests::automove_limit
AutomoveLimit ==
    New(<<<<>>, <<>>, <<>>>>,
        FALSE,
        <<<<>>, <<>>, <<>>>>,
        <<<<>>,
          <<>>,
          <<>>,
          <<NumberCard("Black", 3), NumberCard("Red", 9), NumberCard("Black", 2)>>,
          <<NumberCard("Black", 1), NumberCard("Green", 3), NumberCard("Green", 2), NumberCard("Green", 1)>>,
          <<>>,
          <<>>,
          <<>>>>)

AutoBoards ==
    InitBoards \cup OneMove(MidGame) \cup OneMove(Dealt)
    \cup {Cascade, AutomoveJokers, AutomoveOne, AutomoveMany, AutomoveLimit}

\* do_automoves up to the first pass of the while loop (board.rs 437-442)
InitAuto ==
    /\ board \in AutoBoards
    /\ auto = [self |-> Some(board), i |-> 1,
               safe_rank |-> auto_safe_rank(board), progress |-> FALSE]
    /\ call = [NoCall EXCEPT !.op = "do_automoves"]
    /\ ret = NoRet
    /\ pc = "automoving"
    /\ steps = 0
    /\ NoGame
    /\ SolverIdle

\* one iteration of the for loop (board.rs 443-461)
AutomoveCell ==
    /\ pc = "automoving"
    /\ auto.i <= NumScanned
    /\ LET r == automove_cell(board, scan_index(auto.i), auto.safe_rank)
       IN  /\ board' = r.board
           /\ auto' = [auto EXCEPT !.i = @ + 1, !.progress = r.did \/ @]
    /\ UNCHANGED <<call, ret, pc, steps>>
    /\ UNCHANGED <<solverVars, gameVars>>

\* the while loop going round with the safe_rank of the first pass
AutomoveNextPassStale ==
    /\ pc = "automoving"
    /\ auto.i > NumScanned
    /\ auto.progress
    /\ auto' = [auto EXCEPT !.i = 1, !.progress = FALSE]
    /\ UNCHANGED <<board, call, ret, pc, steps>>
    /\ UNCHANGED <<solverVars, gameVars>>

\* the end of a pass that moved a card: safe_rank is recomputed and the
\* while loop goes round (board.rs 441-442, 462)
AutomoveNextPass ==
    /\ pc = "automoving"
    /\ auto.i > NumScanned
    /\ auto.progress
    /\ auto' = [auto EXCEPT !.i = 1, !.progress = FALSE,
                            !.safe_rank = auto_safe_rank(board)]
    /\ UNCHANGED <<board, call, ret, pc, steps>>
    /\ UNCHANGED <<solverVars, gameVars>>

\* the end of a pass that moved nothing: the board is returned (board.rs 464)
AutomoveReturn ==
    /\ pc = "automoving"
    /\ auto.i > NumScanned
    /\ ~auto.progress
    /\ ret' = Ok(board)
    /\ pc' = "returned"
    /\ UNCHANGED <<board, call, steps, auto>>
    /\ UNCHANGED <<solverVars, gameVars>>

NextAuto == AutomoveCell \/ AutomoveNextPass \/ AutomoveReturn

SpecAuto == InitAuto /\ [][NextAuto]_vars

\* the loops run on: nothing else runs in do_automoves
SpecAutoFair == SpecAuto /\ WF_vars(NextAuto)

----------------------------------------------------------------------------
(* The cell operations called on their own: CardCell::accept and            *)
(* CardCell::iter_stack, board.rs 50-156                                    *)

\* the cards of create_deck, and the DragonStack stack_dragons makes
AllCards ==
    {JokerCard, DragonStack}
    \cup {DragonCard(su) : su \in SuitSet}
    \cup {NumberCard(su, r) : su \in SuitSet, r \in 1..MaxRank}

\* the columns of the boards above and their lower parts, and the columns of
\* two cards
PairCards ==
    {JokerCard} \cup {DragonCard(su) : su \in SuitSet}
    \cup {NumberCard(su, r) : su \in SuitSet, r \in 1..MaxPairRank}
Columns ==
    {SubSeq(b.game_cells[i].cards, 1, n) :
        <<b, i, n>> \in {t \in (AutoBoards \cup SolveBoards)
                               \X (1..NumGameCells) \X (0..MaxRank) :
                            t[3] <= Len(t[1].game_cells[t[2]].cards)}}
    \cup {<<c>> : c \in AllCards}
    \cup {<<c, d>> : <<c, d>> \in PairCards \X PairCards}

\* the cells a board can hold
Cells ==
    {JokerCell(has) : has \in BOOLEAN}
    \cup {FreeCell(None)} \cup {FreeCell(Some(c)) : c \in AllCards}
    \cup {GoalCell(None)}
    \cup {GoalCell(Some(NumberCard(su, r))) : su \in SuitSet, r \in 1..MaxRank}
    \cup {GameCell(cards) : cards \in Columns}

InitCell ==
    /\ pc = "idle"
    /\ call = NoCall
    /\ ret = NoRet
    /\ board = Won
    /\ steps = 0
    /\ NoGame
    /\ auto = NoAuto
    /\ SolverIdle

\* self.accept(card)
CallAccept(self, card) ==
    /\ pc = "idle"
    /\ call' = [op |-> "accept", self |-> self, card |-> card]
    /\ ret' = [kind |-> "Option", cell |-> accept(self, card)]
    /\ pc' = "returned"
    /\ UNCHANGED <<board, steps, auto>>
    /\ UNCHANGED <<solverVars, gameVars>>

\* self.iter_stack() on a GameCell
CallIterStack(self) ==
    /\ pc = "idle"
    /\ call' = [op |-> "iter_stack", self |-> self]
    /\ ret' = [kind |-> "Vec", cards |-> iter_stack(self)]
    /\ pc' = "returned"
    /\ UNCHANGED <<board, steps, auto>>
    /\ UNCHANGED <<solverVars, gameVars>>

\* the caller is done with the value returned
CellReturn ==
    /\ pc = "returned"
    /\ call' = NoCall
    /\ ret' = NoRet
    /\ pc' = "idle"
    /\ UNCHANGED <<board, steps, auto>>
    /\ UNCHANGED <<solverVars, gameVars>>

NextCell ==
    \/ /\ pc = "idle"
       /\ \E self \in Cells, card \in AllCards : CallAccept(self, card)
    \/ /\ pc = "idle"
       /\ \E cards \in Columns : CallIterStack(GameCell(cards))
    \/ CellReturn

SpecCell == InitCell /\ [][NextCell]_vars

----------------------------------------------------------------------------
(* The successor enumeration called on its own: next_states and            *)
(* get_valid_dests, solver.rs 119-198. The caller goes on from one of the   *)
(* successors, as solve_rc does                                             *)

NextBoards == InitBoards \cup SolveBoards \cup {Cascade, AutomoveLimit}

InitNext ==
    /\ pc = "idle"
    /\ call = NoCall
    /\ ret = NoRet
    /\ board \in NextBoards
    /\ steps = 0
    /\ NoGame
    /\ auto = NoAuto
    /\ SolverIdle

\* next_states(&board)
CallNextStates ==
    /\ pc = "idle"
    /\ call' = [NoCall EXCEPT !.op = "next_states"]
    /\ ret' = [kind |-> "Vec", boards |-> next_states(board)]
    /\ pc' = "returned"
    /\ UNCHANGED <<board, steps, auto>>
    /\ UNCHANGED <<solverVars, gameVars>>

\* get_valid_dests(&board)
CallGetValidDests ==
    /\ pc = "idle"
    /\ call' = [NoCall EXCEPT !.op = "get_valid_dests"]
    /\ ret' = [kind |-> "Vec", dests |-> get_valid_dests(board)]
    /\ pc' = "returned"
    /\ UNCHANGED <<board, steps, auto>>
    /\ UNCHANGED <<solverVars, gameVars>>

\* the caller goes on from one of the successors returned
TakeSuccessor ==
    /\ pc = "returned"
    /\ call.op = "next_states"
    /\ steps < MaxSteps
    /\ \E i \in DOMAIN ret.boards : board' = ret.boards[i]
    /\ steps' = steps + 1
    /\ call' = NoCall
    /\ ret' = NoRet
    /\ pc' = "idle"
    /\ UNCHANGED auto
    /\ UNCHANGED <<solverVars, gameVars>>

\* the caller is done with the vector returned
NextReturn ==
    /\ pc = "returned"
    /\ call' = NoCall
    /\ ret' = NoRet
    /\ pc' = "idle"
    /\ UNCHANGED <<board, steps, auto>>
    /\ UNCHANGED <<solverVars, gameVars>>

NextNext == CallNextStates \/ CallGetValidDests \/ TakeSuccessor \/ NextReturn

SpecNext == InitNext /\ [][NextNext]_vars

----------------------------------------------------------------------------
(* The interactive game: game.rs 29-341. `board`, `cursor` and `mode` are  *)
(* the fields of Game, `key` is the key the loop of play handled last,     *)
(* `call` and `ret` the board operation that handler invoked and its result *)

\* a late board: two groups of dragons made, the Green dragons exposed with
\* Black 2 under one of them, a run of two and an empty column
HeightChoice ==
    New(<<<<DragonStack>>, <<DragonStack>>, <<>>>>,
        TRUE,
        <<<<NumberCard("Red", 2)>>, <<NumberCard("Green", 2)>>, <<NumberCard("Black", 1)>>>>,
        <<<<NumberCard("Red", 4), NumberCard("Black", 3)>>,
          <<NumberCard("Black", 2), DragonCard("Green")>>,
          <<NumberCard("Red", 3), NumberCard("Green", 9), DragonCard("Green")>>,
          <<NumberCard("Green", 3), NumberCard("Red", 9), DragonCard("Green")>>,
          <<NumberCard("Black", 9), NumberCard("Black", 8), DragonCard("Green")>>,
          <<NumberCard("Red", 8), NumberCard("Red", 7), NumberCard("Red", 6), NumberCard("Red", 5), NumberCard("Green", 8), NumberCard("Green", 7)>>,
          <<NumberCard("Green", 6), NumberCard("Green", 5), NumberCard("Green", 4), NumberCard("Black", 7), NumberCard("Black", 6), NumberCard("Black", 5), NumberCard("Black", 4)>>,
          <<>>>>)

GameBoards == {MidGame, Dealt, HeightChoice}

\* the Game a handler works on, and what it leaves: the fields of Game and
\* the board operation it invoked
Game(b, c, m) == [board |-> b, cursor |-> c, mode |-> m,
                  call |-> NoCall, ret |-> NoRet]

\* Game::cursor_to_cci
cursor_to_cci(c) ==
    IF c \in 1..3 THEN FreeCellIndex(c)
    ELSE IF c \in 4..6 THEN GoalCellIndex(c - 3)
    ELSE GameCellIndex(c - 6)

\* Game::cell_at
cell_at(self, c) == get_cell(self.board, cursor_to_cci(c))

\* select that lets a goal cell be the source
select_goal(self) ==
    IF self.mode.t = "SelectSource"
    THEN LET t == top(cell_at(self, self.cursor))
         IN  IF t = None THEN self
             ELSE IF t[1].k = "DragonStack" THEN self
             ELSE [self EXCEPT !.mode = SelectDestination(self.cursor)]
    ELSE IF self.mode.t = "SelectDestination"
    THEN LET source == cursor_to_cci(self.mode.cursor)
             dest == cursor_to_cci(self.cursor)
             new_board == move_stack(self.board, source, dest)
             called == [self EXCEPT
                          !.call = [NoCall EXCEPT !.op = "move_stack",
                                      !.source = source, !.dest = dest],
                          !.ret = new_board]
         IN  IF new_board.kind = "Ok"
             THEN [called EXCEPT !.board = do_automoves(new_board.board[1]),
                                 !.mode = SelectSource]
             ELSE IF new_board.kind = "InvalidMove"
             THEN [called EXCEPT !.mode = SelectSource]
             ELSE IF new_board.kind = "AmbiguousMove"
             THEN [called EXCEPT !.mode = ChooseStackHeight(self.mode.cursor,
                                               new_board.h, new_board.h)]
             ELSE called
    ELSE LET source == cursor_to_cci(self.mode.cursor)
             dest == cursor_to_cci(self.cursor)
             new_board == move_n_cards(self.board, source, dest, self.mode.height)
             called == [self EXCEPT
                          !.call = [NoCall EXCEPT !.op = "move_n_cards",
                                      !.source = source, !.dest = dest,
                                      !.n = self.mode.height],
                          !.ret = new_board]
         IN  IF new_board.kind = "Ok"
             THEN [called EXCEPT !.board = do_automoves(new_board.board[1]),
                                 !.mode = SelectSource]
             ELSE IF new_board.kind = "None"
             THEN [called EXCEPT !.mode = SelectSource]
             ELSE called

\* Game::select (game.rs 166-210); a panic of the board operation leaves
\* the game as it was
select(self) ==
    IF self.mode.t = "SelectSource"
    THEN IF 4 <= self.cursor /\ self.cursor <= 6 THEN self
         ELSE LET t == top(cell_at(self, self.cursor))
              IN  IF t = None THEN self
                  ELSE IF t[1].k = "DragonStack" THEN self
                  ELSE [self EXCEPT !.mode = SelectDestination(self.cursor)]
    ELSE IF self.mode.t = "SelectDestination"
    THEN LET source == cursor_to_cci(self.mode.cursor)
             dest == cursor_to_cci(self.cursor)
             new_board == move_stack(self.board, source, dest)
             called == [self EXCEPT
                          !.call = [NoCall EXCEPT !.op = "move_stack",
                                      !.source = source, !.dest = dest],
                          !.ret = new_board]
         IN  IF new_board.kind = "Ok"
             THEN [called EXCEPT !.board = do_automoves(new_board.board[1]),
                                 !.mode = SelectSource]
             ELSE IF new_board.kind = "InvalidMove"
             THEN [called EXCEPT !.mode = SelectSource]
             ELSE IF new_board.kind = "AmbiguousMove"
             THEN [called EXCEPT !.mode = ChooseStackHeight(self.mode.cursor,
                                               new_board.h, new_board.h)]
             ELSE called
    ELSE LET source == cursor_to_cci(self.mode.cursor)
             dest == cursor_to_cci(self.cursor)
             new_board == move_n_cards(self.board, source, dest, self.mode.height)
             called == [self EXCEPT
                          !.call = [NoCall EXCEPT !.op = "move_n_cards",
                                      !.source = source, !.dest = dest,
                                      !.n = self.mode.height],
                          !.ret = new_board]
         IN  IF new_board.kind = "Ok"
             THEN [called EXCEPT !.board = do_automoves(new_board.board[1]),
                                 !.mode = SelectSource]
             ELSE IF new_board.kind = "None"
             THEN [called EXCEPT !.mode = SelectSource]
             ELSE called

\* cancel that drops the whole selection
cancel_all(self) == [self EXCEPT !.mode = SelectSource]

\* Game::cancel (game.rs 212-217)
cancel(self) ==
    IF self.mode.t = "ChooseStackHeight"
    THEN [self EXCEPT !.mode = SelectDestination(self.mode.cursor)]
    ELSE [self EXCEPT !.mode = SelectSource]

\* Game::jump_to (game.rs 222-229)
jump_to(self, num) ==
    IF self.cursor >= 7 THEN [self EXCEPT !.cursor = num + 6]
    ELSE IF num <= 6 THEN [self EXCEPT !.cursor = num]
    ELSE self

\* Game::stack_dragons (game.rs 240-255)
group_dragons(self) ==
    LET t == top(cell_at(self, self.cursor))
    IN  IF t = None THEN self
        ELSE IF t[1].k # "DragonCard" THEN self
        ELSE LET grouped == stack_dragons(self.board, t[1].suit)
                 called == [self EXCEPT
                              !.call = [NoCall EXCEPT !.op = "stack_dragons",
                                          !.suit = t[1].suit],
                              !.ret = OfOption(grouped)]
             IN  IF grouped = None THEN called
                 ELSE [called EXCEPT !.board = do_automoves(grouped[1])]

\* Game::move_cursor_up (game.rs 257-276)
move_cursor_up(self) ==
    IF self.mode.t = "ChooseStackHeight"
    THEN IF self.mode.height < self.mode.max_height
         THEN [self EXCEPT !.mode.height = @ + 1]
         ELSE self
    ELSE IF self.cursor = 7 THEN [self EXCEPT !.cursor = 2]
    ELSE IF self.cursor \in 8..10 THEN [self EXCEPT !.cursor = 3]
    ELSE IF self.cursor \in 11..13 THEN [self EXCEPT !.cursor = 4]
    ELSE IF self.cursor = 14 THEN [self EXCEPT !.cursor = 5]
    ELSE self

\* Game::move_cursor_left (game.rs 278-287)
move_cursor_left(self) ==
    IF self.mode.t = "ChooseStackHeight" THEN self
    ELSE IF self.cursor \in {1, 7} THEN self
    ELSE [self EXCEPT !.cursor = @ - 1]

\* Game::move_cursor_right (game.rs 289-298)
move_cursor_right(self) ==
    IF self.mode.t = "ChooseStackHeight" THEN self
    ELSE IF self.cursor \in {6, 14} THEN self
    ELSE [self EXCEPT !.cursor = @ + 1]

\* Game::move_cursor_down (game.rs 300-319)
move_cursor_down(self) ==
    IF self.mode.t = "ChooseStackHeight"
    THEN IF self.mode.height > 1
         THEN [self EXCEPT !.mode.height = @ - 1]
         ELSE self
    ELSE IF self.cursor = 1 THEN [self EXCEPT !.cursor = 7]
    ELSE IF self.cursor \in {2, 3} THEN [self EXCEPT !.cursor = @ + 5]
    ELSE IF self.cursor \in {4, 5} THEN [self EXCEPT !.cursor = @ + 9]
    ELSE IF self.cursor = 6 THEN [self EXCEPT !.cursor = 14]
    ELSE self

\* Game::print panics in display_highlighted_cell (display.rs 44-75): the
\* highlighted column is empty, or holds fewer cards than `height` (the
\* subtraction underflows, or the slice index it wraps to is out of range)
print_panics(self) ==
    /\ self.mode.t = "ChooseStackHeight"
    /\ LET card_stack == self.board.game_cells[self.mode.cursor - 6].cards
       IN  card_stack = <<>> \/ self.mode.height > Len(card_stack)

\* Game::new and the head of Game::play (game.rs 35-41, 137-139)
InitGame ==
    /\ \E b \in GameBoards : board = do_automoves(b)
    /\ cursor = 11
    /\ mode = SelectSource
    /\ key = "none"
    /\ call = NoCall
    /\ ret = NoRet
    /\ pc = "playing"
    /\ steps = 0
    /\ auto = NoAuto
    /\ SolverIdle

\* one turn of the loop of Game::play (game.rs 141-162): the handler of the
\* key, then print
KeyPress(chr, handled) ==
    /\ pc = "playing"
    /\ ~is_solved(board)
    /\ handled.ret.kind = "Ok" => steps < MaxSteps
    /\ key' = chr
    /\ board' = handled.board
    /\ cursor' = handled.cursor
    /\ mode' = handled.mode
    /\ call' = handled.call
    /\ ret' = handled.ret
    /\ steps' = IF handled.ret.kind = "Ok" THEN steps + 1 ELSE steps
    /\ pc' = IF handled.ret.kind = "Panic" \/ print_panics(handled)
             THEN "panicked" ELSE "playing"
    /\ UNCHANGED <<auto, solverVars>>

PressSelect == KeyPress("select", select(Game(board, cursor, mode)))
PressCancel == KeyPress("cancel", cancel(Game(board, cursor, mode)))
PressGroup == KeyPress("stack_dragons", group_dragons(Game(board, cursor, mode)))
PressJump == \E num \in 1..8 : KeyPress("jump_to", jump_to(Game(board, cursor, mode), num))
PressUp == KeyPress("move_cursor_up", move_cursor_up(Game(board, cursor, mode)))
PressLeft == KeyPress("move_cursor_left", move_cursor_left(Game(board, cursor, mode)))
PressRight == KeyPress("move_cursor_right", move_cursor_right(Game(board, cursor, mode)))
PressDown == KeyPress("move_cursor_down", move_cursor_down(Game(board, cursor, mode)))

NextGame ==
    \/ PressSelect
    \/ PressCancel
    \/ PressGroup
    \/ PressJump
    \/ PressUp
    \/ PressLeft
    \/ PressRight
    \/ PressDown

SpecGame == InitGame /\ [][NextGame]_vars

----------------------------------------------------------------------------
(* Vocabulary of the properties                                            *)

Returned(op) == pc = "returned" /\ call.op = op
out == ret.board[1]
FreeRange == 1..NumFreeCells
GoalRange == 1..NumGoalCells
GameRange == 1..NumGameCells
Last(s) == s[Len(s)]
\* s without its last n elements, and the last n elements of s
DropLast(s, n) == SubSeq(s, 1, Len(s) - n)
TakeLast(s, n) == SubSeq(s, Len(s) - n + 1, Len(s))
Occurrences(s, x) == Cardinality({i \in DOMAIN s : s[i] = x})

\* how many copies of card c a board holds: in free cells and columns, in
\* the joker slot, and under (or as) the top card of a goal pile
CopiesOn(b, c) ==
    SumSeq([i \in FreeRange |-> Occurrences(b.free_cells[i].cards, c)])
    + SumSeq([i \in GameRange |-> Occurrences(b.game_cells[i].cards, c)])
    + SumSeq([i \in GoalRange |->
                IF /\ c.k = "NumberCard"
                   /\ b.goal_cells[i].cards # <<>>
                   /\ b.goal_cells[i].cards[1].suit = c.suit
                   /\ b.goal_cells[i].cards[1].rank >= c.rank
                THEN 1 ELSE 0])
    + (IF c.k = "JokerCard" /\ b.joker_cell.has_joker THEN 1 ELSE 0)

\* the 40-card deck, a DragonStack standing for the 4 dragons of one suit
\* that has no dragon left on the board
IsDeck(b) ==
    /\ CopiesOn(b, JokerCard) = 1
    /\ \A su \in SuitSet : \A r \in 1..MaxRank : CopiesOn(b, NumberCard(su, r)) = 1
    /\ \A su \in SuitSet : CopiesOn(b, DragonCard(su)) \in {0, DragonsPerSuit}
    /\ Cardinality({su \in SuitSet : CopiesOn(b, DragonCard(su)) = 0})
         = CopiesOn(b, DragonStack)
    /\ \A i \in GoalRange : \A j \in GoalRange :
         (i # j /\ b.goal_cells[i].cards # <<>> /\ b.goal_cells[j].cards # <<>>)
            => b.goal_cells[i].cards[1].suit # b.goal_cells[j].cards[1].suit

\* length of the longest suffix of a column in which each card is held by
\* the card below it
RunLen(cards) ==
    IF cards = <<>> THEN 0
    ELSE CHOOSE n \in 1..Len(cards) :
            /\ \A i \in (Len(cards) - n + 2)..Len(cards) : can_hold(cards[i - 1], cards[i])
            /\ (n < Len(cards)
                  => ~can_hold(cards[Len(cards) - n], cards[Len(cards) - n + 1]))

\* the scanned cells (columns, then free cells) whose top is a dragon of suit
ExposedDragons(b, suit) ==
    {i \in 1..NumScanned : top(get_cell(b, scan_index(i))) = Some(DragonCard(suit))}
NumStacks(b) ==
    Cardinality({i \in FreeRange : b.free_cells[i].cards = <<DragonStack>>})

\* the cells of a kind as a multiset
CellBag(cells) ==
    [c \in {cells[i] : i \in DOMAIN cells} |-> Occurrences(cells, c)]
SameMultisets(a, c) ==
    /\ a.joker_cell = c.joker_cell
    /\ CellBag(a.free_cells) = CellBag(c.free_cells)
    /\ CellBag(a.goal_cells) = CellBag(c.goal_cells)
    /\ CellBag(a.game_cells) = CellBag(c.game_cells)

\* b with its cells of each kind rearranged by permutations (Board::new
\* called with the same cells in another order)
PermsOf(n) == {f \in [1..n -> 1..n] : \A i, j \in 1..n : f[i] = f[j] => i = j}
Swaps(n) ==
    {[k \in 1..n |-> IF k = i THEN j ELSE IF k = j THEN i ELSE k] :
        <<i, j>> \in (1..n) \X (1..n)}
Rearranged(b, pf, pg, pc_) ==
    [joker_cell |-> b.joker_cell,
     free_cells |-> [i \in FreeRange |-> b.free_cells[pf[i]]],
     goal_cells |-> [i \in GoalRange |-> b.goal_cells[pg[i]]],
     game_cells |-> [i \in GameRange |-> b.game_cells[pc_[i]]]]
Rearrangements(b) ==
    {Rearranged(b, pf, pg, [k \in GameRange |-> k]) :
        <<pf, pg>> \in PermsOf(NumFreeCells) \X PermsOf(NumGoalCells)}
    \cup {Rearranged(b, [k \in FreeRange |-> k], [k \in GoalRange |-> k], ps) :
            ps \in Swaps(NumGameCells)}
    \cup {Rearranged(b, [k \in FreeRange |-> k], [k \in GoalRange |-> k],
                     [k \in GameRange |-> NumGameCells + 1 - k]),
          Rearranged(b, [k \in FreeRange |-> k], [k \in GoalRange |-> k],
                     [k \in GameRange |-> (k % NumGameCells) + 1])}

----------------------------------------------------------------------------
(* Properties                                                              *)

\* C1: every board the caller holds or gets back from a successful
\* move_stack, move_n_cards, stack_dragons or do_automoves holds exactly the
\* 40-card deck (a DragonStack counted as the 4 dragons of a suit, a goal
\* pile as the ranks up to its top, a filled joker slot as the Joker).
C1_Conservation ==
    /\ pc = "idle" => IsDeck(board)
    /\ (pc = "returned" /\ ret.kind = "Ok") => IsDeck(out)

\* a second successful operation in a row, here a dragon grouping
C1_Witness ==
    /\ Returned("stack_dragons")
    /\ ret.kind = "Ok"
    /\ steps >= 1

\* C2: do_automoves applied to the result of do_automoves gives that result
\* again, for the caller's board and for every board returned to it.
C2_AutomoveIdempotent ==
    /\ pc = "idle" =>
          /\ do_automoves(do_automoves(board)) = do_automoves(board)
          /\ board_eq(do_automoves(do_automoves(board)), do_automoves(board))
    /\ (pc = "returned" /\ ret.kind = "Ok") =>
          /\ do_automoves(do_automoves(out)) = do_automoves(out)
          /\ board_eq(do_automoves(do_automoves(out)), do_automoves(out))

\* do_automoves has moved several cards, one of them only exposed by an
\* earlier automove of the same call
C2_Witness ==
    /\ Returned("do_automoves")
    /\ \E i \in GameRange : Len(out.game_cells[i].cards) + 3 <= Len(board.game_cells[i].cards)

\* C4 as stated: stack_dragons succeeds only if all 4 dragons of the suit are
\* exposed tops and at least one free slot of the board it is called on is
\* empty.
C4_AsStated ==
    (Returned("stack_dragons") /\ ret.kind = "Ok") =>
        /\ Cardinality(ExposedDragons(board, call.suit)) = DragonsPerSuit
        /\ \E i \in FreeRange : board.free_cells[i].cards = <<>>

\* C4: stack_dragons succeeds only if all 4 dragons of the suit are exposed
\* tops of 4 different cells and at least one free slot of the board it is
\* called on is empty or holds one of those dragons.
C4_GroupingPrecondition ==
    (Returned("stack_dragons") /\ ret.kind = "Ok") =>
        /\ Cardinality(ExposedDragons(board, call.suit)) = DragonsPerSuit
        /\ \E i \in FreeRange :
              board.free_cells[i].cards \in {<<>>, <<DragonCard(call.suit)>>}

\* a grouping that succeeds on a board without an empty free slot
C4_Witness ==
    /\ Returned("stack_dragons")
    /\ ret.kind = "Ok"
    /\ \A i \in FreeRange : board.free_cells[i].cards # <<>>

\* C5: a successful stack_dragons(suit) pops the 4 exposed dragons of the
\* suit, turns exactly one free slot (empty, or emptied of such a dragon)
\* into a DragonStack, and leaves every other cell as it was, so the number
\* of DragonStacks grows by exactly 1.
C5_GroupingEffect ==
    (Returned("stack_dragons") /\ ret.kind = "Ok") =>
        LET exposed == ExposedDragons(board, call.suit)
            dragon == <<DragonCard(call.suit)>>
        IN  /\ Cardinality(exposed) = DragonsPerSuit
            /\ out.joker_cell = board.joker_cell
            /\ out.goal_cells = board.goal_cells
            /\ \A i \in GameRange :
                  out.game_cells[i] =
                     IF i \in exposed
                     THEN GameCell(DropLast(board.game_cells[i].cards, 1))
                     ELSE board.game_cells[i]
            /\ Cardinality({i \in FreeRange :
                              out.free_cells[i] # board.free_cells[i]
                              /\ out.free_cells[i].cards = <<DragonStack>>}) = 1
            /\ \A i \in FreeRange :
                  \/ /\ out.free_cells[i].cards = <<DragonStack>>
                     /\ board.free_cells[i].cards \in {<<>>, dragon, <<DragonStack>>}
                  \/ /\ board.free_cells[i].cards = dragon
                     /\ out.free_cells[i] = FreeCell(None)
                  \/ /\ board.free_cells[i].cards # dragon
                     /\ out.free_cells[i] = board.free_cells[i]
            /\ NumStacks(out) = NumStacks(board) + 1

\* a grouping that takes dragons from columns and from a free slot while a
\* dragon of another suit is exposed
C5_Witness ==
    /\ Returned("stack_dragons")
    /\ ret.kind = "Ok"
    /\ \E i \in FreeRange : board.free_cells[i].cards = <<DragonCard(call.suit)>>
    /\ \E su \in SuitSet \ {call.suit} : ExposedDragons(board, su) # {}

\* stack_dragons can succeed: 4 dragons of the suit exposed, and a free slot
\* left for the DragonStack once they are taken
GroupingPossible(b, suit) ==
    /\ Cardinality(ExposedDragons(b, suit)) >= DragonsPerSuit
    /\ \E i \in FreeRange : b.free_cells[i].cards \in {<<>>, <<DragonCard(suit)>>}

\* C6: when stack_dragons cannot succeed (fewer than 4 dragons of the suit
\* exposed, or no free slot for the DragonStack), it returns no board, and
\* the caller's board is the same before and after the call.
C6_GroupingAtomic ==
    [][(Returned("stack_dragons") /\ ~GroupingPossible(board, call.suit)) =>
          /\ ret.kind = "None"
          /\ ret.board = None
          /\ board' = board]_vars

\* a grouping that fails after remove_dragons has taken dragons off its copy
C6_Witness ==
    /\ Returned("stack_dragons")
    /\ ret.kind = "None"
    /\ ExposedDragons(board, call.suit) # {}
    /\ remove_dragons(board, call.suit).board # board

\* C7: two boards compare equal exactly when their joker slots agree and
\* their free slots, goal piles and columns agree as multisets; equal boards
\* hash equally; a board compares and hashes equal to each rearrangement of
\* its free slots, goal piles or columns.
C7_CanonicalEquality ==
    /\ (pc = "returned" /\ ret.kind = "Ok") =>
          /\ board_eq(board, out) <=> SameMultisets(board, out)
          /\ board_eq(board, out) => board_hash(board) = board_hash(out)
    /\ pc = "idle" =>
          \A other \in Rearrangements(board) :
              /\ board_eq(board, other)
              /\ board_eq(other, board)
              /\ board_hash(board) = board_hash(other)
              /\ SameMultisets(board, other)

\* a move whose result differs from the board cell by cell and compares equal
C7_Witness ==
    /\ Returned("move_stack")
    /\ ret.kind = "Ok"
    /\ out # board
    /\ board_eq(board, out)

\* a column-to-column move_stack onto a column that holds a card
ForcedMove ==
    /\ Returned("move_stack")
    /\ call.source.t = "GameCellIndex"
    /\ call.dest.t = "GameCellIndex"
    /\ board.game_cells[call.dest.n].cards # <<>>

\* C8: move_stack from a column onto a non-empty column either moves exactly
\* (destination top rank - source top rank) cards, the top of the source run
\* in order, or is InvalidMove; it is InvalidMove exactly when a top card is
\* not a Number card, that number is not in 1..run length, or the
\* destination top cannot hold the lowest moved card.
C8_ForcedHeight ==
    ForcedMove =>
        LET src == board.game_cells[call.source.n].cards
            dst == board.game_cells[call.dest.n].cards
            numbers == src # <<>> /\ Last(src).k = "NumberCard"
                       /\ Last(dst).k = "NumberCard"
            k == Last(dst).rank - Last(src).rank
            legal == /\ numbers
                     /\ k >= 1
                     /\ k <= RunLen(src)
                     /\ can_hold(Last(dst), src[Len(src) - k + 1])
        IN  /\ ret.kind \in {"Ok", "InvalidMove"}
            /\ ret.kind = "Ok" <=> legal
            /\ ret.kind = "Ok" =>
                  out = [board EXCEPT
                           !.game_cells[call.source.n] = GameCell(DropLast(src, k)),
                           !.game_cells[call.dest.n] = GameCell(dst \o TakeLast(src, k))]

\* a forced move of part of a run
C8_Witness ==
    /\ ForcedMove
    /\ ret.kind = "Ok"
    /\ Len(out.game_cells[call.dest.n].cards)
          >= Len(board.game_cells[call.dest.n].cards) + 2
    /\ RunLen(board.game_cells[call.source.n].cards)
          > Len(board.game_cells[call.source.n].cards)
              - Len(out.game_cells[call.source.n].cards)

\* a move_stack from a column to another column that is empty
ToEmptyColumn ==
    /\ Returned("move_stack")
    /\ call.source.t = "GameCellIndex"
    /\ call.dest.t = "GameCellIndex"
    /\ call.source # call.dest
    /\ board.game_cells[call.dest.n].cards = <<>>

\* C9: move_stack from a column to a different, empty column returns
\* AmbiguousMove(h), and no board, exactly when the source run has height
\* h > 1, h being the full run length; with a run of height 1 it moves
\* exactly the top card.
C9_Ambiguity ==
    ToEmptyColumn =>
        LET src == board.game_cells[call.source.n].cards
            h == RunLen(src)
        IN  /\ ret.kind = "AmbiguousMove" <=> h > 1
            /\ ret.kind = "AmbiguousMove" => (ret.h = h /\ ret.board = None)
            /\ h = 1 =>
                  /\ ret.kind = "Ok"
                  /\ out = [board EXCEPT
                              !.game_cells[call.source.n] = GameCell(DropLast(src, 1)),
                              !.game_cells[call.dest.n] = GameCell(<<Last(src)>>)]

\* an AmbiguousMove for a run of 3 cards that is not the whole column
C9_Witness ==
    /\ ToEmptyColumn
    /\ ret.kind = "AmbiguousMove"
    /\ ret.h = 3
    /\ Len(board.game_cells[call.source.n].cards) > 3

\* a single card moved to an empty column off a card that does not hold it
C9_WitnessSingle ==
    /\ ToEmptyColumn
    /\ ret.kind = "Ok"
    /\ Len(board.game_cells[call.source.n].cards) >= 2

\* C10: move_n_cards(source, dest, n) on two columns fails exactly when n is
\* 0, n exceeds the source run length, or the destination column (as it
\* stands once the n cards have left the source) rejects the sub-run;
\* otherwise the top n cards of the source have moved, in order, onto the
\* destination and nothing else has changed.
C10_MoveNCards ==
    Returned("move_n_cards") =>
        LET s == call.source.n
            d == call.dest.n
            n == call.n
            src == board.game_cells[s].cards
            taken == [board EXCEPT !.game_cells[s] = GameCell(DropLast(src, n))]
            dst == taken.game_cells[d].cards
            fails == \/ n = 0
                     \/ n > RunLen(src)
                     \/ dst # <<>> /\ ~can_hold(Last(dst), TakeLast(src, n)[1])
        IN  /\ ret.kind \in {"Ok", "None"}
            /\ ret.kind = "None" <=> fails
            /\ ret.kind = "None" => ret.board = None
            /\ ret.kind = "Ok" =>
                  out = [taken EXCEPT !.game_cells[d] = GameCell(dst \o TakeLast(src, n))]

\* two cards of a run of three moved onto another column's card
C10_Witness ==
    /\ Returned("move_n_cards")
    /\ ret.kind = "Ok"
    /\ call.source # call.dest
    /\ call.n = 2
    /\ RunLen(board.game_cells[call.source.n].cards) = 3
    /\ board.game_cells[call.dest.n].cards # <<>>

\* C3: a path returned by solve starts with the input board as given, ends
\* with a solved board, and each board of it is canonically equal to a member
\* of next_states of the board before it; for a solved input it is that
\* single board.
C3_PathValid ==
    result.kind = "Some" =>
        LET p == result.path
        IN  /\ p # <<>>
            /\ p[1] = start[1]
            /\ is_solved(Last(p))
            /\ \A i \in 1..(Len(p) - 1) :
                  LET states == next_states(p[i])
                  IN  \E j \in DOMAIN states : board_eq(states[j], p[i + 1])
            /\ is_solved(start[1]) => p = <<start[1]>>

\* a path of three boards or more from a board that has automoves pending
C3_Witness ==
    /\ result.kind = "Some"
    /\ Len(result.path) >= 3
    /\ do_automoves(start[1]) # start[1]

\* a solved input answered with itself
C3_WitnessSolved ==
    /\ result.kind = "Some"
    /\ is_solved(start[1])
    /\ result.path = <<start[1]>>

\* C11: whenever move_stack(source, dest) returns AmbiguousMove(h),
\* move_n_cards(source, dest, n) succeeds for every n in 1..h, fails for
\* n = 0 and n = h + 1, and the h boards are pairwise different (cell by cell
\* and canonically).
C11_AmbiguityResolves ==
    (Returned("move_stack") /\ ret.kind = "AmbiguousMove") =>
        LET h == ret.h
            res == [n \in 0..(h + 1) |->
                        move_n_cards(board, call.source, call.dest, n)]
        IN  /\ h >= 2
            /\ \A n \in 1..h : res[n].kind = "Ok"
            /\ res[0].kind = "None"
            /\ res[h + 1].kind = "None"
            /\ \A n1, n2 \in 1..h :
                  n1 # n2 => /\ res[n1].board[1] # res[n2].board[1]
                             /\ ~board_eq(res[n1].board[1], res[n2].board[1])

\* an AmbiguousMove for a run that stands on cards it does not chain with
C11_Witness ==
    /\ Returned("move_stack")
    /\ ret.kind = "AmbiguousMove"
    /\ ret.h >= 2
    /\ Len(board.game_cells[call.source.n].cards) >= ret.h + 2

\* C12: move_stack(X, X) is InvalidMove for every slot X, and move_stack from
\* a slot that holds no card is InvalidMove for every destination: never
\* AmbiguousMove, never a board.
C12_SelfAndEmptySource ==
    (/\ Returned("move_stack")
     /\ \/ call.source = call.dest
        \/ top(get_cell(board, call.source)) = None) =>
        /\ ret.kind = "InvalidMove"
        /\ ret.board = None

\* a column holding a run moved onto itself
C12_Witness ==
    /\ Returned("move_stack")
    /\ call.source = call.dest
    /\ call.source.t = "GameCellIndex"
    /\ RunLen(board.game_cells[call.source.n].cards) >= 2
    /\ ret.kind = "InvalidMove"

\* an empty column moved to an empty column, an empty goal pile to a free slot
C12_WitnessEmpty ==
    /\ Returned("move_stack")
    /\ call.source # call.dest
    /\ top(get_cell(board, call.source)) = None
    /\ top(get_cell(board, call.dest)) = None
    /\ ret.kind = "InvalidMove"

\* cards held in free slots and columns
CardsInPlay(b) ==
    SumSeq([i \in FreeRange |-> Len(b.free_cells[i].cards)])
    + SumSeq([i \in GameRange |-> Len(b.game_cells[i].cards)])

\* the least top rank over the goal piles, an empty pile counting 0
MinGoalRank(b) ==
    CHOOSE m \in 0..MaxRank :
        /\ \E g \in GoalRange :
              m = (IF b.goal_cells[g].cards = <<>> THEN 0
                   ELSE b.goal_cells[g].cards[1].rank)
        /\ \A g \in GoalRange :
              m <= (IF b.goal_cells[g].cards = <<>> THEN 0
                    ELSE b.goal_cells[g].cards[1].rank)

\* the step-by-step do_automoves returns what the operator computes
AutoAgrees ==
    (pc = "returned" /\ auto.self # None) => out = do_automoves(auto.self[1])

\* a goal pile takes a card: a Number card, rank 1 on an empty pile, else
\* the suit of the pile's top and the rank after it
GoalTakes(cell, card) ==
    /\ card.k = "NumberCard"
    /\ IF cell.cards = <<>> THEN card.rank = 1
       ELSE /\ cell.cards[1].k = "NumberCard"
            /\ cell.cards[1].suit = card.suit
            /\ cell.cards[1].rank + 1 = card.rank

\* a Number card is under or at the top of a goal pile
InGoal(b, card) ==
    \E g \in GoalRange :
        /\ b.goal_cells[g].cards # <<>>
        /\ b.goal_cells[g].cards[1].suit = card.suit
        /\ b.goal_cells[g].cards[1].rank >= card.rank

\* C13: do_automoves sends a Number card of rank r to a goal pile only if
\* r <= 2 + the least top rank of the goal piles (empty = 0) at the moment
\* of the move, the safe rank of the pass being no higher than that; so each
\* card of the rank below and another suit is in a goal or is the next card
\* a goal pile takes, and each card two ranks below or more is in a goal.
C13_SafetyLimit ==
    [][\A g \in GoalRange :
          board'.goal_cells[g] # board.goal_cells[g] =>
             LET card == board'.goal_cells[g].cards[1]
                 r == card.rank
             IN  /\ r <= 2 + MinGoalRank(board)
                 /\ r <= auto.safe_rank
                 /\ auto.safe_rank <= 2 + MinGoalRank(board)
                 /\ \A su \in SuitSet \ {card.suit} :
                       /\ r >= 2 =>
                             \/ InGoal(board, NumberCard(su, r - 1))
                             \/ \E g2 \in GoalRange :
                                   GoalTakes(board.goal_cells[g2],
                                             NumberCard(su, r - 1))
                       /\ \A q \in 1..(r - 2) : InGoal(board, NumberCard(su, q))
      ]_vars

\* mid-pass, the goal piles have risen since safe_rank was computed, and the
\* cell in turn holds a Number card that goes to a goal
C13_Witness ==
    /\ pc = "automoving"
    /\ auto.i <= NumScanned
    /\ auto.safe_rank < 2 + MinGoalRank(board)
    /\ top(get_cell(board, scan_index(auto.i))) # None
    /\ top(get_cell(board, scan_index(auto.i)))[1].k = "NumberCard"
    /\ automove_cell(board, scan_index(auto.i), auto.safe_rank).did

\* C14: the board do_automoves returns is a fixed point of the automove
\* rule: no free slot or column shows a Joker, and no exposed Number card
\* has both rank <= auto_safe_rank of that board and a goal pile that takes
\* it.
C14_AutomoveComplete ==
    (pc = "returned" /\ call.op = "do_automoves" /\ auto.self # None) =>
        \A i \in 1..NumScanned :
            LET cell == get_cell(out, scan_index(i))
                card == Last(cell.cards)
            IN  cell.cards # <<>> =>
                   /\ card.k # "JokerCard"
                   /\ ~(/\ card.k = "NumberCard"
                        /\ card.rank <= 2 + MinGoalRank(out)
                        /\ \E g \in GoalRange : GoalTakes(out.goal_cells[g], card))

\* a call that moved a card covered at the start and a card out of reach of
\* the first safe rank
C14_Witness ==
    /\ pc = "returned"
    /\ auto.self # None
    /\ \E i \in GameRange :
          Len(out.game_cells[i].cards) + 2 <= Len(auto.self[1].game_cells[i].cards)
    /\ \E g \in GoalRange :
          /\ out.goal_cells[g].cards # <<>>
          /\ out.goal_cells[g].cards[1].rank > 2 + MinGoalRank(auto.self[1])

\* C15: do_automoves terminates: each automove takes exactly one card out of
\* the free slots and columns, progress is set exactly by a move, the loop
\* returns at the end of the first pass that moved nothing, and that end
\* comes.
C15_AutomoveTerminates ==
    /\ [][board' # board => CardsInPlay(board') = CardsInPlay(board) - 1]_vars
    /\ [][(pc = "automoving" /\ auto.i <= NumScanned) =>
             (auto'.progress <=> (auto.progress \/ board' # board))]_vars
    /\ [][(pc = "automoving" /\ auto.i > NumScanned) =>
             IF auto.progress
             THEN pc' = "automoving" /\ auto'.i = 1 /\ ~auto'.progress
             ELSE pc' = "returned" /\ ret' = Ok(board)]_vars
    /\ <>(pc = "returned")

\* a call that returned after moving five cards or more
C15_Witness ==
    /\ pc = "returned"
    /\ auto.self # None
    /\ CardsInPlay(out) + 5 <= CardsInPlay(auto.self[1])

\* solve was called on a board that is not solved and has no successor
NoSuccessors ==
    /\ start # None
    /\ ~is_solved(start[1])
    /\ next_states(start[1]) = <<>>

\* C16: solve on a board that is not solved and has no successor ends with
\* no path (None): it never returns a path, it expands that one board and
\* no more, the expansion leaves open_set empty, and the next step of the
\* loop is the return of None.
C16_NoPath ==
    /\ [](NoSuccessors =>
            /\ result.kind \in {"none", "None"}
            /\ result.iter <= 1
            /\ result.iter = 1 => open_set = <<>>)
    /\ [][(NoSuccessors /\ result.iter = 1 /\ result.kind = "none") =>
             result'.kind = "None"]_vars

\* solve has answered None for a board with cards and no move
C16_Witness ==
    /\ NoSuccessors
    /\ result.kind = "None"
    /\ result.iter = 1
    /\ closed_set # {}

\* C17: on the very_easy fixture solve returns a path of exactly 3 boards:
\* the fixture, an intermediate board with every free slot occupied on which
\* stack_dragons(Green) succeeds, and the solved board that grouping gives;
\* it never answers None, expands two boards and no more, and the next
\* step of the loop pops a solved board and returns.
C17_VeryEasy ==
    /\ []((start = Some(VeryEasy) /\ result.kind = "Some") =>
            LET p == result.path
            IN  /\ Len(p) = 3
                /\ p[1] = VeryEasy
                /\ \A i \in FreeRange : p[2].free_cells[i].cards # <<>>
                /\ ~is_solved(p[2])
                /\ stack_dragons(p[2], "Green") # None
                /\ board_eq(p[3], do_automoves(stack_dragons(p[2], "Green")[1]))
                /\ is_solved(p[3]))
    /\ [](start = Some(VeryEasy) =>
            /\ result.kind \in {"none", "Some"}
            /\ result.iter <= 2
            /\ (result.iter = 2 /\ result.kind = "none") =>
                  \E i \in poppable(open_set) : is_solved(open_set[i].board))
    /\ [][(start = Some(VeryEasy) /\ result.iter = 2 /\ result.kind = "none") =>
             result'.kind = "Some"]_vars

\* the path of the very_easy fixture has been returned
C17_Witness ==
    /\ start = Some(VeryEasy)
    /\ result.kind = "Some"
    /\ Len(result.path) = 3
    /\ \A i \in FreeRange : result.path[2].free_cells[i].cards # <<>>

\* no Number card is left in a free slot or a column
NumbersHome(b) ==
    /\ \A i \in FreeRange : \A j \in DOMAIN b.free_cells[i].cards :
          b.free_cells[i].cards[j].k # "NumberCard"
    /\ \A i \in GameRange : \A j \in DOMAIN b.game_cells[i].cards :
          b.game_cells[i].cards[j].k # "NumberCard"

\* C18: on the fast_win fixture solve returns a path of exactly 3 boards:
\* the fixture, the board one move_stack and its automoves away, on which
\* no Number card is left outside the goals, and the solved board the
\* grouping of the Green dragons gives; it never answers None, expands two
\* boards and no more, and the next step of the loop pops a solved board and
\* returns.
C18_FastWin ==
    /\ []((start = Some(FastWin) /\ result.kind = "Some") =>
            LET p == result.path
            IN  /\ Len(p) = 3
                /\ p[1] = FastWin
                /\ ~NumbersHome(p[1])
                /\ \E source \in CardCellIndex, dest \in CardCellIndex :
                      /\ move_stack(p[1], source, dest).kind = "Ok"
                      /\ board_eq(p[2],
                            do_automoves(move_stack(p[1], source, dest).board[1]))
                /\ NumbersHome(p[2])
                /\ ~is_solved(p[2])
                /\ stack_dragons(p[2], "Green") # None
                /\ board_eq(p[3], do_automoves(stack_dragons(p[2], "Green")[1]))
                /\ is_solved(p[3]))
    /\ [](start = Some(FastWin) =>
            /\ result.kind \in {"none", "Some"}
            /\ result.iter <= 2
            /\ (result.iter = 2 /\ result.kind = "none") =>
                  \E i \in poppable(open_set) : is_solved(open_set[i].board))
    /\ [][(start = Some(FastWin) /\ result.iter = 2 /\ result.kind = "none") =>
             result'.kind = "Some"]_vars

\* the path of the fast_win fixture has been returned
C18_Witness ==
    /\ start = Some(FastWin)
    /\ result.kind = "Some"
    /\ Len(result.path) = 3
    /\ NumbersHome(result.path[2])

\* the card `lower` holds the card `upper` placed on it in a column: Number
\* cards of different suits, the upper one rank lower
Chains(lower, upper) ==
    /\ lower.k = "NumberCard"
    /\ upper.k = "NumberCard"
    /\ lower.suit # upper.suit
    /\ lower.rank = upper.rank + 1

\* C19: iter_stack returns the longest suffix of the column, ending at the
\* top card, in which each card is held by the one below it (Number cards,
\* one rank less going up, suits differing between neighbours): one card
\* when the top two cards do not chain, nothing for an empty column.
C19_RunValidity ==
    (pc = "returned" /\ call.op = "iter_stack") =>
        LET cards == call.self.cards
            run == ret.cards
            n == Len(run)
        IN  /\ n <= Len(cards)
            /\ run = SubSeq(cards, Len(cards) - n + 1, Len(cards))
            /\ cards = <<>> <=> run = <<>>
            /\ \A i \in 1..(n - 1) : Chains(run[i], run[i + 1])
            /\ (n >= 1 /\ n < Len(cards)) =>
                  ~Chains(cards[Len(cards) - n], cards[Len(cards) - n + 1])
            /\ (Len(cards) >= 2
                /\ ~Chains(cards[Len(cards) - 1], cards[Len(cards)])) => n = 1
            /\ (cards # <<>> /\ Last(cards).k # "NumberCard") => n = 1

\* a run of three cards that stops at a Number card two ranks above it
C19_Witness ==
    /\ pc = "returned"
    /\ call.op = "iter_stack"
    /\ Len(ret.cards) = 3
    /\ Len(call.self.cards) > Len(ret.cards)
    /\ LET below == call.self.cards[Len(call.self.cards) - Len(ret.cards)]
       IN  /\ below.k = "NumberCard"
           /\ below.suit # ret.cards[1].suit
           /\ below.rank = ret.cards[1].rank + 2

\* one card returned for two Number cards of one suit and following ranks
C19_WitnessSuit ==
    /\ pc = "returned"
    /\ call.op = "iter_stack"
    /\ Len(ret.cards) = 1
    /\ Len(call.self.cards) = 2
    /\ call.self.cards[1].k = "NumberCard"
    /\ call.self.cards[2].k = "NumberCard"
    /\ call.self.cards[1].suit = call.self.cards[2].suit
    /\ call.self.cards[1].rank = call.self.cards[2].rank + 1

\* C20: a goal pile accepts a card if and only if the card is a Number card
\* and either the pile is empty and the rank is 1, or the pile's top card
\* has the same suit and the rank before it; the pile then shows that card;
\* Dragons, Jokers and DragonStacks are never accepted.
C20_GoalAcceptance ==
    (pc = "returned" /\ call.op = "accept" /\ call.self.t = "GoalCell") =>
        /\ ret.cell # None <=> GoalTakes(call.self, call.card)
        /\ ret.cell # None => ret.cell[1] = GoalCell(Some(call.card))
        /\ call.card.k # "NumberCard" => ret.cell = None

\* a pile takes the card after its top card
C20_Witness ==
    /\ pc = "returned"
    /\ call.op = "accept"
    /\ call.self.t = "GoalCell"
    /\ call.self.cards # <<>>
    /\ ret.cell # None

\* a pile refuses the card of another suit with the rank after its top card
C20_WitnessRefused ==
    /\ pc = "returned"
    /\ call.op = "accept"
    /\ call.self.t = "GoalCell"
    /\ call.self.cards # <<>>
    /\ call.card.k = "NumberCard"
    /\ call.card.rank = call.self.cards[1].rank + 1
    /\ ret.cell = None

\* a column holding dst takes a run whose lowest card is bottom
ColumnTakes(dst, bottom) == dst = <<>> \/ Chains(Last(dst), bottom)

\* a move of cards onto a column other than the source
OntoColumn ==
    /\ pc = "returned"
    /\ call.op \in {"move_stack", "move_n_cards"}
    /\ call.dest.t = "GameCellIndex"
    /\ call.source # call.dest
    /\ call.source.t # "GoalCellIndex"

\* C21: a column accepts a single card or a run if and only if it is empty or
\* its top card is a Number card of another suit than the lowest incoming
\* card and exactly one rank above it: a successful move onto a column puts
\* such cards there; a single card from a free slot, or n cards of a column's
\* run, are refused (InvalidMove, no board) exactly when the column does not
\* take them; a Dragon or Joker lands on an empty column only.
C21_ColumnAcceptance ==
    OntoColumn =>
        LET dst == board.game_cells[call.dest.n].cards
            source_cell == get_cell(board, call.source)
        IN  /\ ret.kind = "Ok" =>
                LET now == out.game_cells[call.dest.n].cards
                    moved == SubSeq(now, Len(dst) + 1, Len(now))
                IN  /\ Len(now) > Len(dst)
                    /\ now = dst \o moved
                    /\ ColumnTakes(dst, moved[1])
                    /\ moved[1].k # "NumberCard" => (dst = <<>> /\ Len(moved) = 1)
            /\ (call.op = "move_stack" /\ call.source.t = "FreeCellIndex"
                /\ top(source_cell) # None /\ top(source_cell)[1] # DragonStack) =>
                /\ ret.kind \in {"Ok", "InvalidMove"}
                /\ ret.kind = "Ok" <=> ColumnTakes(dst, top(source_cell)[1])
            /\ (call.op = "move_stack" /\ call.source.t = "GameCellIndex"
                /\ source_cell.cards # <<>>) =>
                /\ dst = <<>> => ret.kind \in {"Ok", "AmbiguousMove"}
                /\ (dst # <<>> /\ ~\E k \in 1..RunLen(source_cell.cards) :
                        ColumnTakes(dst, TakeLast(source_cell.cards, k)[1])) =>
                      ret.kind = "InvalidMove"
            /\ (call.op = "move_n_cards" /\ call.n \in 1..RunLen(source_cell.cards)) =>
                  (ret.kind = "Ok" <=>
                      ColumnTakes(dst, TakeLast(source_cell.cards, call.n)[1]))
            /\ ret.kind # "Ok" => ret.board = None

\* a single Number card leaves a free slot for a column whose top card holds it
C21_Witness ==
    /\ OntoColumn
    /\ call.source.t = "FreeCellIndex"
    /\ board.game_cells[call.dest.n].cards # <<>>
    /\ ret.kind = "Ok"

\* a Number card in a free slot is refused by a column whose top card has its
\* suit and the rank above
C21_WitnessSuit ==
    /\ OntoColumn
    /\ call.source.t = "FreeCellIndex"
    /\ board.game_cells[call.dest.n].cards # <<>>
    /\ LET c == top(get_cell(board, call.source))
           t == Last(board.game_cells[call.dest.n].cards)
       IN  /\ c # None
           /\ c[1].k = "NumberCard"
           /\ t.k = "NumberCard"
           /\ t.suit = c[1].suit
           /\ t.rank = c[1].rank + 1
    /\ ret.kind = "InvalidMove"

\* the free slots of b that hold a DragonStack
StackSlots(b) == {i \in FreeRange : b.free_cells[i].cards = <<DragonStack>>}

\* a DragonStack somewhere else than alone in a free slot
StrayStack(b) ==
    \/ \E i \in GameRange : \E j \in DOMAIN b.game_cells[i].cards :
          b.game_cells[i].cards[j] = DragonStack
    \/ \E i \in GoalRange : b.goal_cells[i].cards = <<DragonStack>>

\* C22: move_stack and move_n_cards never move a DragonStack (a move_stack
\* whose source shows a DragonStack is InvalidMove, whatever the destination)
\* and no operation puts one on a column or a goal pile; every board an
\* operation returns has a DragonStack in each free slot that had one, so the
\* number of DragonStacks never decreases, and it grows by stack_dragons only.
C22_DragonStackPermanence ==
    /\ ~StrayStack(board)
    /\ (pc = "returned" /\ call.op \in {"move_stack", "move_n_cards"}
        /\ top(get_cell(board, call.source)) = Some(DragonStack)) =>
          /\ ret.kind = "InvalidMove"
          /\ ret.board = None
    /\ (pc = "returned" /\ ret.kind = "Ok") =>
          /\ StackSlots(board) \subseteq StackSlots(out)
          /\ NumStacks(out) >= NumStacks(board)
          /\ call.op # "stack_dragons" => StackSlots(out) = StackSlots(board)
          /\ ~StrayStack(out)

\* a DragonStack asked to move from its free slot to an empty column
C22_Witness ==
    /\ Returned("move_stack")
    /\ top(get_cell(board, call.source)) = Some(DragonStack)
    /\ call.dest.t = "GameCellIndex"
    /\ board.game_cells[call.dest.n].cards = <<>>
    /\ ret.kind = "InvalidMove"

\* an operation on a board that got a DragonStack from the operation before
C22_WitnessLater ==
    /\ pc = "returned"
    /\ steps >= 1
    /\ ret.kind = "Ok"
    /\ NumStacks(board) >= 1
    /\ out # board

\* the Joker lies in a free slot or on a column of b
JokerInPlay(b) ==
    \/ \E i \in FreeRange : b.free_cells[i].cards = <<JokerCard>>
    \/ \E i \in GameRange : \E j \in DOMAIN b.game_cells[i].cards :
          b.game_cells[i].cards[j] = JokerCard

\* C23: the joker slot of the caller's board accepts the Joker and no other
\* card; every board an operation returns has the joker slot filled if it
\* was filled before; only do_automoves fills it, with the Joker that lay on
\* the board.
C23_JokerPermanence ==
    /\ \A c \in AllCards : accept(board.joker_cell, c) # None <=> c = JokerCard
    /\ accept(board.joker_cell, JokerCard) = Some(JokerCell(TRUE))
    /\ (pc = "returned" /\ ret.kind = "Ok") =>
          /\ board.joker_cell.has_joker => out.joker_cell.has_joker
          /\ call.op # "do_automoves" => out.joker_cell = board.joker_cell
          /\ (out.joker_cell.has_joker /\ ~board.joker_cell.has_joker) =>
                (JokerInPlay(board) /\ ~JokerInPlay(out))
          /\ out.joker_cell.has_joker => ~JokerInPlay(out)

\* a move on a board whose joker slot an earlier do_automoves filled
C23_Witness ==
    /\ pc = "returned"
    /\ steps >= 1
    /\ ~MidGame.joker_cell.has_joker
    /\ board = do_automoves(MidGame)
    /\ board.joker_cell.has_joker
    /\ call.op \in {"move_stack", "move_n_cards", "stack_dragons"}
    /\ ret.kind = "Ok"
    /\ out # board

\* do_automoves fills the joker slot
C23_WitnessFilled ==
    /\ Returned("do_automoves")
    /\ ~board.joker_cell.has_joker
    /\ out.joker_cell.has_joker

\* the g an entry of the frontier was pushed with: its f less its h
entry_g(e) == e.fscore - estimated_moves_to_solve(e.board)

\* C24: when a board is expanded with candidate cost g', every successor
\* that gets a frontier entry is outside the closed set and had no recorded
\* g <= g' (a successor whose recorded g equals g' is skipped: it is pushed
\* neither for another expansion nor twice in one).
C24_Relaxation ==
    [][result'.iter = result.iter + 1 =>
         \A j \in Len(open_set)..Len(open_set') :
            LET e == open_set'[j]
                h == board_hash(e.board)
            IN  /\ h \notin closed_set'
                /\ h \in DOMAIN gscores => gscores[h] > entry_g(e)
                /\ \A i \in Len(open_set)..(j - 1) :
                      board_hash(open_set'[i].board) # h]_vars

\* C25: each canonical board is expanded at most once during one solve: the
\* board an iteration expands was not in the closed set before (the closed
\* set grows with every expansion).
C25_ExpandedOnce ==
    [][result'.iter = result.iter + 1 =>
         /\ closed_set \subseteq closed_set'
         /\ closed_set' # closed_set]_vars

\* C26: every iteration of the search loop removes from the frontier one
\* entry whose f is least among the entries of the frontier; f is the g the
\* entry was pushed with plus the estimate of its board; the search returns
\* at that iteration (with a path ending at that board) exactly when the
\* removed board is solved, and otherwise goes on.
C26_FrontierOrder ==
    /\ [][open_set' # open_set =>
            \E i \in DOMAIN open_set :
               /\ \A j \in DOMAIN open_set : open_set[i].fscore <= open_set[j].fscore
               /\ Len(open_set') >= Len(open_set) - 1
               /\ SubSeq(open_set', 1, Len(open_set) - 1) = heap_without(open_set, i)
               /\ is_solved(open_set[i].board) <=> result'.kind = "Some"
               /\ is_solved(open_set[i].board) =>
                     /\ Last(result'.path) = open_set[i].board
                     /\ Len(open_set') = Len(open_set) - 1
                     /\ result'.iter = result.iter
               /\ ~is_solved(open_set[i].board) =>
                     /\ result'.kind = "none"
                     /\ result'.iter = result.iter + 1
                     /\ board_hash(open_set[i].board) \in closed_set'
                     /\ \A j \in Len(open_set)..Len(open_set') :
                           open_set'[j].fscore =
                              gscores[board_hash(open_set[i].board)] + 1
                              + estimated_moves_to_solve(open_set'[j].board)]_vars
    /\ [][result.kind # "none" => UNCHANGED <<open_set, result>>]_vars
    /\ [][result'.kind = "Some" => open_set' # open_set]_vars

\* the search returns a solved board while the frontier still holds entries
\* of a greater f
C26_Witness ==
    /\ result.kind = "Some"
    /\ result.iter >= 2
    /\ \E j \in DOMAIN open_set : open_set[j].fscore > Len(result.path) - 1

\* the n-th predecessor of the board recorded under h (h itself for n = 0)
RECURSIVE Ancestor(_, _)
Ancestor(h, n) ==
    IF n = 0 \/ h \notin DOMAIN path THEN h
    ELSE Ancestor(board_hash(path[h]), n - 1)

\* C27: at every point of solve the start board has g = 0 and no
\* predecessor; every other recorded board n has a predecessor, which is
\* closed, and g(n) = g(predecessor(n)) + 1, so the chain of predecessors of
\* n reaches the start board after g(n) boards; a recorded g never
\* increases; the returned path starts at the start board and has
\* g(solved board) + 1 boards.
C27_Bookkeeping ==
    /\ [](LET h0 == board_hash(start[1])
          IN  /\ h0 \in DOMAIN gscores
              /\ gscores[h0] = 0
              /\ h0 \notin DOMAIN path
              /\ DOMAIN path = DOMAIN gscores \ {h0}
              /\ \A h \in DOMAIN path :
                    /\ board_hash(path[h]) \in closed_set
                    /\ board_hash(path[h]) \in DOMAIN gscores
                    /\ gscores[h] = gscores[board_hash(path[h])] + 1
                    /\ Ancestor(h, gscores[h]) = h0
                    /\ \A n \in 0..(gscores[h] - 1) : Ancestor(h, n) # h0
              /\ result.kind = "Some" =>
                    /\ result.path[1] = start[1]
                    /\ Len(result.path) = gscores[board_hash(Last(result.path))] + 1)
    /\ [][\A h \in DOMAIN gscores :
             /\ h \in DOMAIN gscores'
             /\ gscores'[h] <= gscores[h]]_vars

\* a path of three boards or more is returned with ten boards recorded
C27_Witness ==
    /\ result.kind = "Some"
    /\ Len(result.path) >= 3
    /\ Cardinality(DOMAIN gscores) >= 10

C28_WitnessNone ==
    /\ result.kind = "None"
    /\ result.iter >= 1

\* the slot is one of the destinations get_valid_dests returned
Considered(index) == \E i \in DOMAIN ret.dests : ret.dests[i] = index
Empty(index) == top(get_cell(board, index)) = None

\* C30 as stated: at most one empty free slot and at most one empty column
\* are considered, a goal pile is considered only if it is non-empty, and
\* every occupied free slot, every occupied column and every non-empty goal
\* pile is considered.
C30_AsStated ==
    Returned("get_valid_dests") =>
        /\ Cardinality({n \in FreeRange : Empty(FreeCellIndex(n))
                           /\ Considered(FreeCellIndex(n))}) <= 1
        /\ Cardinality({n \in GameRange : Empty(GameCellIndex(n))
                           /\ Considered(GameCellIndex(n))}) <= 1
        /\ \A n \in GoalRange :
              Considered(GoalCellIndex(n)) <=> ~Empty(GoalCellIndex(n))
        /\ \A n \in FreeRange :
              ~Empty(FreeCellIndex(n)) => Considered(FreeCellIndex(n))
        /\ \A n \in GameRange :
              ~Empty(GameCellIndex(n)) => Considered(GameCellIndex(n))

\* C30: at most one empty free slot and at most one empty column are
\* considered, a goal pile is considered only if it is non-empty, no
\* occupied free slot is considered, an occupied column is considered
\* exactly when its top card is a Number card, and every non-empty goal pile
\* is considered.
C30_CandidateDests ==
    Returned("get_valid_dests") =>
        /\ Cardinality({n \in FreeRange : Empty(FreeCellIndex(n))
                           /\ Considered(FreeCellIndex(n))}) <= 1
        /\ Cardinality({n \in GameRange : Empty(GameCellIndex(n))
                           /\ Considered(GameCellIndex(n))}) <= 1
        /\ \A n \in GoalRange :
              Considered(GoalCellIndex(n)) <=> ~Empty(GoalCellIndex(n))
        /\ \A n \in FreeRange :
              ~Empty(FreeCellIndex(n)) => ~Considered(FreeCellIndex(n))
        /\ \A n \in GameRange :
              ~Empty(GameCellIndex(n)) =>
                 (Considered(GameCellIndex(n))
                    <=> top(board.game_cells[n])[1].k = "NumberCard")

\* destinations of a board with two empty columns, an occupied free slot, a
\* column that shows a dragon and a goal pile that holds a card
C30_Witness ==
    /\ Returned("get_valid_dests")
    /\ Cardinality({n \in GameRange : Empty(GameCellIndex(n))}) >= 2
    /\ \E n \in FreeRange : ~Empty(FreeCellIndex(n))
    /\ \E n \in GameRange :
          /\ ~Empty(GameCellIndex(n))
          /\ top(board.game_cells[n])[1].k = "DragonCard"
    /\ \E n \in GoalRange : ~Empty(GoalCellIndex(n))

\* the sequences of a sequence of sequences, one after the other
RECURSIVE Flatten(_)
Flatten(ss) == IF ss = <<>> THEN <<>> ELSE Head(ss) \o Flatten(Tail(ss))

\* the free slots, then the columns, whose exposed top card exists and is
\* not a DragonStack
CandidateSources(b) ==
    SelectSeq([n \in FreeRange |-> FreeCellIndex(n)]
                 \o [n \in GameRange |-> GameCellIndex(n)],
              LAMBDA s : top(get_cell(b, s)) \notin {None, Some(DragonStack)})

\* the successors of one suit: the grouping, automoved, when it succeeds
GroupedSuccessors(b, suit) ==
    IF stack_dragons(b, suit) = None THEN <<>>
    ELSE <<do_automoves(stack_dragons(b, suit)[1])>>

\* the successors of one (source, destination) pair
MoveSuccessors(b, s, d) ==
    LET r == move_stack(b, s, d)
    IN  IF r.kind = "Ok" THEN <<do_automoves(r.board[1])>>
        ELSE IF r.kind = "AmbiguousMove"
        THEN [h \in 1..r.h |-> do_automoves(move_n_cards(b, s, d, h).board[1])]
        ELSE <<>>

\* C29: next_states(board) is, in this order, the automoved stack_dragons
\* result of each suit (Black, Green, Red) on which it succeeds, then, source
\* by source and destination by destination (sources: the free slots and
\* columns whose top card exists and is not a DragonStack; destinations:
\* those of get_valid_dests), the automoved move_stack result on success,
\* one automoved move_n_cards result for each height 1..h on
\* AmbiguousMove(h), every one of which succeeds, and nothing on
\* InvalidMove; every board returned is a fixed point of do_automoves.
C29_SuccessorEnumeration ==
    Returned("next_states") =>
        LET srcs == CandidateSources(board)
            dsts == get_valid_dests(board)
        IN  /\ \A i \in DOMAIN srcs, j \in DOMAIN dsts :
                  LET r == move_stack(board, srcs[i], dsts[j])
                  IN  /\ r.kind \in {"Ok", "AmbiguousMove", "InvalidMove"}
                      /\ r.kind = "AmbiguousMove" =>
                            \A h \in 1..r.h :
                               move_n_cards(board, srcs[i], dsts[j], h).kind = "Ok"
            /\ ret.boards =
                  Flatten([k \in 1..3 |->
                             GroupedSuccessors(board, <<"Black", "Green", "Red">>[k])])
                  \o Flatten([p \in 1..(Len(srcs) * Len(dsts)) |->
                                MoveSuccessors(board,
                                               srcs[((p - 1) \div Len(dsts)) + 1],
                                               dsts[((p - 1) % Len(dsts)) + 1])])
            /\ \A i \in DOMAIN ret.boards :
                  do_automoves(ret.boards[i]) = ret.boards[i]

\* successors of a board with a grouping that succeeds, a run of three cards
\* next to an empty column, and one successor at least that automoves changed
C29_Witness ==
    /\ Returned("next_states")
    /\ \E suit \in SuitSet : stack_dragons(board, suit) # None
    /\ \E s \in GameRange, d \in GameRange :
          /\ move_stack(board, GameCellIndex(s), GameCellIndex(d)).kind = "AmbiguousMove"
          /\ move_stack(board, GameCellIndex(s), GameCellIndex(d)).h >= 3
          /\ \E i \in DOMAIN get_valid_dests(board) :
                get_valid_dests(board)[i] = GameCellIndex(d)
    /\ \E s \in CardCellIndex, d \in CardCellIndex :
          /\ move_stack(board, s, d).kind = "Ok"
          /\ do_automoves(move_stack(board, s, d).board[1])
                # move_stack(board, s, d).board[1]
          /\ \E i \in DOMAIN ret.boards :
                ret.boards[i] = do_automoves(move_stack(board, s, d).board[1])

\* the boards every (source, destination) pair of slots gives, no slot left
\* out: move_stack, and each height of move_n_cards when it is ambiguous
AllMoves(b) ==
    UNION {LET r == move_stack(b, s, d)
           IN  IF r.kind = "Ok" THEN {r.board[1]}
               ELSE IF r.kind = "AmbiguousMove"
               THEN {move_n_cards(b, s, d, h).board[1] :
                        h \in {x \in 1..r.h : move_n_cards(b, s, d, x).kind = "Ok"}}
               ELSE {} : s \in CardCellIndex, d \in CardCellIndex}

AllGroupings(b) ==
    {stack_dragons(b, suit)[1] : suit \in {x \in SuitSet : stack_dragons(b, x) # None}}

\* C31: on a board that do_automoves leaves as it is, the boards of
\* next_states are, up to canonical equality, the automoved results of every
\* (source, destination) pair over the 3 free slots, the 8 columns and the
\* 3 goal piles, and of the dragon groupings.
C31_PruningComplete ==
    (Returned("next_states") /\ do_automoves(board) = board) =>
        {board_hash(ret.boards[i]) : i \in DOMAIN ret.boards}
           = {board_hash(do_automoves(x)) : x \in AllMoves(board) \cup AllGroupings(board)}

\* successors of an automoved board with two empty free slots and two empty
\* columns, one of them a move to an empty column
C31_Witness ==
    /\ Returned("next_states")
    /\ do_automoves(board) = board
    /\ Cardinality({n \in FreeRange : board.free_cells[n].cards = <<>>}) >= 2
    /\ Cardinality({n \in GameRange : board.game_cells[n].cards = <<>>}) >= 2
    /\ \E n \in GameRange : Len(board.game_cells[n].cards) >= 2
    /\ Len(ret.boards) >= 4

\* the canonical boards of a sequence of boards
CanonicalSet(boards) == {board_hash(boards[i]) : i \in DOMAIN boards}

\* b with its free slots, goal piles and columns each as they are or in
\* reverse order, or the columns moved round by one
Reorderings(b) ==
    {Rearranged(b, pf, pg, pc_) :
        pf \in {[k \in FreeRange |-> k], [k \in FreeRange |-> NumFreeCells + 1 - k]},
        pg \in {[k \in GoalRange |-> k], [k \in GoalRange |-> NumGoalCells + 1 - k]},
        pc_ \in {[k \in GameRange |-> k], [k \in GameRange |-> NumGameCells + 1 - k],
                 [k \in GameRange |-> (k % NumGameCells) + 1]}}

\* C32: for the board b the caller holds and every board a made of the same
\* cells in another order (canonically equal to b), do_automoves(a) equals
\* do_automoves(b), stack_dragons(suit) succeeds on both or on neither, with
\* equal results, and next_states(a) and next_states(b) hold the same
\* canonical boards (next_states is compared on the rearrangements that
\* reverse a kind of cells or move the columns round).
C32_Congruence ==
    Returned("next_states") =>
        LET auto_b == do_automoves(board)
            hash_b == board_hash(auto_b)
            stacked(b) == [k \in 1..3 |-> stack_dragons(b, Suits[k])]
            stacked_b == stacked(board)
            canonical_b == CanonicalSet(ret.boards)
        IN  \A other \in Rearrangements(board) \cup Reorderings(board) :
               LET auto_o == do_automoves(other)
                   stacked_o == stacked(other)
               IN  /\ board_eq(other, board)
                   /\ board_eq(auto_o, auto_b)
                   /\ board_hash(auto_o) = hash_b
                   /\ \A k \in 1..3 :
                         /\ stacked_o[k] = None <=> stacked_b[k] = None
                         /\ stacked_b[k] # None =>
                               board_eq(stacked_o[k][1], stacked_b[k][1])
                   /\ other \in Reorderings(board) =>
                         CanonicalSet(next_states(other)) = canonical_b

\* a board on which automoves move cards and whose rearrangement ends, cell
\* by cell, in another board; groupings and moves give it successors
C32_Witness ==
    /\ Returned("next_states")
    /\ do_automoves(board) # board
    /\ \E other \in Rearrangements(board) :
          do_automoves(other) # do_automoves(board)
    /\ \E suit \in SuitSet : stack_dragons(board, suit) # None
    /\ Len(ret.boards) >= 4

\* the dragons of a suit in a column beyond the first
Beyond(cards, suit) ==
    LET n == Occurrences(cards, DragonCard(suit))
    IN  IF n = 0 THEN 0 ELSE n - 1

\* the heuristic as the claim words it
HeuristicValue(b) ==
    LET ungoaled == SumSeq([i \in GoalRange |->
                       IF b.goal_cells[i].cards = <<>> THEN 9
                       ELSE 9 - b.goal_cells[i].cards[1].rank])
        ungrouped == 3 - NumStacks(b)
        trapped == SumSeq([i \in GameRange |->
                      SumSeq([k \in 1..3 |-> Beyond(b.game_cells[i].cards, Suits[k])])])
    IN  ungoaled + ungrouped + (IF ungrouped >= 1 THEN trapped ELSE 0)

\* C33: the f of the first frontier entry is the heuristic value of the
\* start board, and the f of every entry an expansion pushes is the g
\* recorded for its board plus the heuristic value of that board, the
\* heuristic value being (sum over the goal piles of 9 - top rank, 9 for an
\* empty pile) + (number of suits without a DragonStack) + (when a suit is
\* ungrouped, the dragons of each suit in each column beyond the first); the
\* value is 0 on a won board.
C33_Heuristic ==
    /\ [](result.iter = 0 /\ result.kind = "none" =>
             /\ Len(open_set) = 1
             /\ open_set[1].fscore = HeuristicValue(start[1]))
    /\ [][result'.iter = result.iter + 1 =>
             \A j \in Len(open_set)..Len(open_set') :
                open_set'[j].fscore
                   = gscores'[board_hash(open_set'[j].board)]
                     + HeuristicValue(open_set'[j].board)]_vars
    /\ [](\A j \in DOMAIN open_set :
             (/\ is_solved(open_set[j].board)
              /\ NumStacks(open_set[j].board) = 3
              /\ \A i \in GoalRange : goal_rank(open_set[j].board.goal_cells[i]) = 9) =>
                estimated_moves_to_solve(open_set[j].board) = 0)

\* an entry is pushed for a board with two dragons of a suit in one column,
\* a DragonStack, and a goal pile below rank 9
C33_Witness ==
    /\ result.iter >= 1
    /\ \E j \in DOMAIN open_set :
          LET b == open_set[j].board
          IN  /\ NumStacks(b) \in 1..2
              /\ \E i \in GameRange, suit \in SuitSet :
                    Beyond(b.game_cells[i].cards, suit) >= 1
              /\ \E i \in GoalRange : goal_rank(b.goal_cells[i]) < 9

\* the only entry of the frontier is a won board, of f = 0
C33_WitnessWon ==
    /\ result.iter = 0
    /\ start = Some(Won)
    /\ open_set = <<[fscore |-> 0, board |-> Won]>>

\* a move_stack or move_n_cards between two different slots has returned
MoveReturned ==
    /\ pc = "returned"
    /\ call.op \in {"move_stack", "move_n_cards"}
    /\ call.source # call.dest

\* C34: a successful move_stack or move_n_cards between two slots changes
\* the source cell and the destination cell only: every other cell, and the
\* joker slot, is as in the input board; the source has lost its top k
\* cards (k >= 1) and the destination has gained those cards in the same
\* order (a goal pile shows the card moved); a move that fails returns no
\* board; the caller's board is the same before and after the call, and
\* stays so when the move has failed.
C34_MoveFrame ==
    /\ [](MoveReturned =>
            /\ ret.kind # "Ok" => ret.board = None
            /\ ret.kind = "Ok" =>
                  LET src == get_cell(board, call.source).cards
                      dst == get_cell(board, call.dest).cards
                      k == Len(src) - Len(get_cell(out, call.source).cards)
                      moved == TakeLast(src, k)
                  IN  /\ k >= 1
                      /\ call.op = "move_n_cards" => k = call.n
                      /\ get_cell(out, call.source).cards = DropLast(src, k)
                      /\ get_cell(out, call.source).t = get_cell(board, call.source).t
                      /\ get_cell(out, call.dest).t = get_cell(board, call.dest).t
                      /\ get_cell(out, call.dest).cards
                            = IF call.dest.t = "GoalCellIndex" THEN moved
                              ELSE dst \o moved
                      /\ out.joker_cell = board.joker_cell
                      /\ \A index \in CardCellIndex \ {call.source, call.dest} :
                            get_cell(out, index) = get_cell(board, index))
    /\ [][(pc = "idle" /\ pc' = "returned") => board' = board]_vars
    /\ [][(pc = "returned" /\ ret.kind # "Ok") => board' = board]_vars

\* two cards of a run moved between columns of a board with a filled joker
\* slot and cards in free slots and goal piles
C34_Witness ==
    /\ MoveReturned
    /\ ret.kind = "Ok"
    /\ Len(get_cell(board, call.source).cards)
          - Len(get_cell(out, call.source).cards) >= 2
    /\ board.joker_cell.has_joker
    /\ \E n \in FreeRange : board.free_cells[n].cards # <<>>
    /\ \E n \in GoalRange : board.goal_cells[n].cards # <<>>

\* a card moved onto a goal pile
C34_WitnessGoal ==
    /\ MoveReturned
    /\ ret.kind = "Ok"
    /\ call.dest.t = "GoalCellIndex"
    /\ board.goal_cells[call.dest.n].cards # <<>>

\* C35: no operation lowers the top rank of a goal pile or changes its suit:
\* in every board returned, a pile that held a card holds a card of the
\* same suit and of the same rank or a higher one; move_stack with a goal
\* pile as source returns no board: it is InvalidMove when the pile is empty
\* or the destination is the pile itself or rejects the card, and a fatal
\* failure (the panic of pop) when the destination accepts the card.
C35_GoalsOnlyGrow ==
    /\ (pc = "returned" /\ ret.kind = "Ok") =>
          \A g \in GoalRange :
             /\ out.goal_cells[g].t = "GoalCell"
             /\ board.goal_cells[g].cards # <<>> =>
                   /\ out.goal_cells[g].cards # <<>>
                   /\ out.goal_cells[g].cards[1].k = "NumberCard"
                   /\ out.goal_cells[g].cards[1].suit = board.goal_cells[g].cards[1].suit
                   /\ out.goal_cells[g].cards[1].rank >= board.goal_cells[g].cards[1].rank
    /\ (Returned("move_stack") /\ call.source.t = "GoalCellIndex") =>
          LET pile == board.goal_cells[call.source.n]
              accepted == /\ call.source # call.dest
                          /\ pile.cards # <<>>
                          /\ accept(get_cell(board, call.dest), pile.cards[1]) # None
          IN  /\ ret.board = None
              /\ ret.kind \in {"InvalidMove", "Panic"}
              /\ ret.kind = "Panic" <=> accepted

\* a card of a goal pile asked to move to an empty column: the fatal failure
C35_Witness ==
    /\ Returned("move_stack")
    /\ call.source.t = "GoalCellIndex"
    /\ board.goal_cells[call.source.n].cards # <<>>
    /\ call.dest.t = "GameCellIndex"
    /\ board.game_cells[call.dest.n].cards = <<>>
    /\ ret.kind = "Panic"

\* a card of a goal pile asked to move onto a card that does not hold it
C35_WitnessInvalid ==
    /\ Returned("move_stack")
    /\ call.source.t = "GoalCellIndex"
    /\ board.goal_cells[call.source.n].cards # <<>>
    /\ call.dest.t = "GameCellIndex"
    /\ board.game_cells[call.dest.n].cards # <<>>
    /\ ret.kind = "InvalidMove"

\* a goal pile that held a card gets the next one
C35_WitnessGrows ==
    /\ pc = "returned"
    /\ ret.kind = "Ok"
    /\ \E g \in GoalRange :
          /\ board.goal_cells[g].cards # <<>>
          /\ out.goal_cells[g].cards # board.goal_cells[g].cards

\* every goal pile at rank 9, the joker slot filled, a DragonStack in each
\* free slot, no card on a column
CompleteWin(b) ==
    /\ \A g \in GoalRange : goal_rank(b.goal_cells[g]) = MaxRank
    /\ b.joker_cell.has_joker
    /\ \A n \in FreeRange : b.free_cells[n].cards = <<DragonStack>>
    /\ \A n \in GameRange : b.game_cells[n].cards = <<>>

\* C36: in a solve that starts from a board holding the 40-card deck, every
\* board of the frontier (the start board, or a do_automoves result
\* reached from it) is_solved finds solved is a complete win: goal piles at
\* rank 9, joker slot filled, three DragonStacks; and the last board of a
\* returned path is a complete win.
C36_SolvedIsWon ==
    IsDeck(start[1]) =>
        /\ \A j \in DOMAIN open_set :
              /\ IsDeck(open_set[j].board)
              /\ is_solved(open_set[j].board) => CompleteWin(open_set[j].board)
        /\ result.kind = "Some" =>
              /\ is_solved(Last(result.path))
              /\ CompleteWin(Last(result.path))

\* a path of three boards that ends with an automove of the last card
C36_Witness ==
    /\ IsDeck(start[1])
    /\ result.kind = "Some"
    /\ Len(result.path) >= 3
    /\ ~CompleteWin(result.path[2])
    /\ CompleteWin(Last(result.path))

\* move_n_cards called with one column as source and destination
SameColumn ==
    /\ Returned("move_n_cards")
    /\ call.source = call.dest

\* C37: move_n_cards(X, X, n) either fails (no board) or returns a board
\* every cell of which holds what it holds in the input board; it fails when
\* n is 0 or exceeds the run of X, or n is the whole run and the card under
\* the run does not hold it.
C37_SameColumn ==
    SameColumn =>
        LET src == board.game_cells[call.source.n].cards
            run == RunLen(src)
        IN  /\ ret.kind \in {"Ok", "None"}
            /\ ret.kind = "None" => ret.board = None
            /\ ret.kind = "Ok" =>
                  /\ out = board
                  /\ \A index \in CardCellIndex : get_cell(out, index) = get_cell(board, index)
                  /\ out.joker_cell = board.joker_cell
            /\ ret.kind = "Ok" <=>
                  /\ call.n \in 1..run
                  /\ call.n < run \/ call.n = Len(src)

\* the top two cards of a run of three taken off a column and put back on it
C37_Witness ==
    /\ SameColumn
    /\ ret.kind = "Ok"
    /\ call.n = 2
    /\ RunLen(board.game_cells[call.source.n].cards) = 3

\* a whole run refused by the card it lies on
C37_WitnessFails ==
    /\ SameColumn
    /\ ret.kind = "None"
    /\ call.n >= 2
    /\ call.n = RunLen(board.game_cells[call.source.n].cards)

\* the column the height is being chosen on
ChosenColumn == board.game_cells[mode.cursor - 6].cards

\* C38: whenever the game is in ChooseStackHeight{cursor, height,
\* max_height}, cursor names a column, 1 <= height <= max_height <= the run
\* length of that column on the current board, and neither the highlighting
\* nor move_n_cards has hit a fatal error.
C38_HeightValid ==
    /\ pc # "panicked"
    /\ mode.t = "ChooseStackHeight" =>
          /\ mode.cursor \in 7..14
          /\ 1 <= mode.height
          /\ mode.height <= mode.max_height
          /\ mode.max_height <= RunLen(ChosenColumn)

\* C39: from SelectSource, select enters SelectDestination exactly when the
\* cursor is on a free slot or column whose top card exists and is not a
\* DragonStack; from SelectDestination, select calls move_stack from the
\* selected source and goes to SelectSource with the automoved result on
\* success, to SelectSource with the board unchanged on InvalidMove, to
\* ChooseStackHeight with height = max_height on AmbiguousMove; cancel steps
\* back from ChooseStackHeight to SelectDestination with the same source and
\* from SelectDestination to SelectSource; move_stack is never invoked with
\* a goal pile as source.
C39_ModeTransitions ==
    [][/\ (key' = "select" /\ mode.t = "SelectSource") =>
            LET t == top(get_cell(board, cursor_to_cci(cursor)))
            IN  /\ board' = board
                /\ cursor' = cursor
                /\ call' = NoCall
                /\ mode' \in {SelectSource, SelectDestination(cursor)}
                /\ mode' = SelectDestination(cursor) <=>
                      /\ cursor \in (1..3) \cup (7..14)
                      /\ t # None
                      /\ t[1].k # "DragonStack"
       /\ (key' = "select" /\ mode.t = "SelectDestination") =>
            /\ call'.op = "move_stack"
            /\ call'.source = cursor_to_cci(mode.cursor)
            /\ call'.dest = cursor_to_cci(cursor)
            /\ ret'.kind \in {"Ok", "InvalidMove", "AmbiguousMove"}
            /\ ret'.kind = "Ok" =>
                  /\ mode' = SelectSource
                  /\ board' = do_automoves(ret'.board[1])
            /\ ret'.kind = "InvalidMove" =>
                  /\ mode' = SelectSource
                  /\ board' = board
            /\ ret'.kind = "AmbiguousMove" =>
                  /\ mode' = ChooseStackHeight(mode.cursor, ret'.h, ret'.h)
                  /\ board' = board
       /\ (key' = "cancel" /\ mode.t = "ChooseStackHeight") =>
            /\ mode' = SelectDestination(mode.cursor)
            /\ board' = board
       /\ (key' = "cancel" /\ mode.t = "SelectDestination") =>
            /\ mode' = SelectSource
            /\ board' = board
       /\ call'.op = "move_stack" => call'.source.t # "GoalCellIndex"
      ]_vars

\* a move made with select: the board is the automoved result
C39_Witness ==
    /\ key = "select"
    /\ call.op = "move_stack"
    /\ ret.kind = "Ok"
    /\ mode = SelectSource
    /\ board = do_automoves(ret.board[1])
    /\ board # ret.board[1]

\* select asked for a height
C39_WitnessAmbiguous ==
    /\ key = "select"
    /\ ret.kind = "AmbiguousMove"
    /\ mode.t = "ChooseStackHeight"
    /\ mode.height = mode.max_height
    /\ mode.height >= 2

\* select refused a goal pile that holds a card
C39_WitnessGoal ==
    /\ key = "select"
    /\ cursor \in 4..6
    /\ top(get_cell(board, cursor_to_cci(cursor))) # None
    /\ mode = SelectSource
    /\ call = NoCall

\* cancel stepped back from the choice of a height
C39_WitnessCancel ==
    /\ key = "cancel"
    /\ mode.t = "SelectDestination"
    /\ RunLen(ChosenColumn) >= 2

====
